---- MODULE Spec2Model ----
(***************************************************************************)
(* Smile Audit: one audit run of the dental-clinic audit app, in the three *)
(* variants the repository holds:                                          *)
(*   "part_000"  src/unnamed/part_000 (Places text search + find-place     *)
(*               fallback, review analysis, advice, PDF export)            *)
(*   "app"       src/app.py (Places text search only, try/except helpers)  *)
(*   "app_Basic" src/app_Basic.py (no API, site heuristics only); of this  *)
(*               one the functions are modelled, not the run               *)
(* A Python str is a sequence of one-character strings; symbols outside    *)
(* ASCII are one element each, written "(v)" "(x)" "(!)" "(?)".            *)
(* Scores are exact: unrounded bucket scores in 1/1200 of a tenth of a     *)
(* point, returned (rounded) scores in tenths of a point.                  *)
(***************************************************************************)
EXTENDS Integers, Sequences, FiniteSets, TLC

\* ------------------------------------------------------------ Python values
None == [t |-> "None"]
StrV(s) == [t |-> "str", v |-> s]
IntV(n) == [t |-> "int", v |-> n]

\* bool(x): None, "" and 0 are false
Truthy(x) ==
    CASE x.t = "None" -> FALSE
      [] x.t = "str" -> x.v # <<>>
      [] x.t = "int" -> x.v # 0
      [] OTHER -> TRUE

\* ------------------------------------------------------------ str operations
UpperAlpha == <<"A","B","C","D","E","F","G","H","I","J","K","L","M","N","O","P","Q","R","S","T","U","V","W","X","Y","Z">>
LowerAlpha == <<"a","b","c","d","e","f","g","h","i","j","k","l","m","n","o","p","q","r","s","t","u","v","w","x","y","z">>
Digits == {"0","1","2","3","4","5","6","7","8","9"}

LowerChar(c) ==
    IF \E i \in 1..26 : UpperAlpha[i] = c
    THEN LowerAlpha[CHOOSE i \in 1..26 : UpperAlpha[i] = c]
    ELSE c

\* s.lower()
Lower(s) == [i \in 1..Len(s) |-> LowerChar(s[i])]

\* s[i:].startswith(kw), i counted from 1
MatchAt(kw, s, i) ==
    /\ i >= 1
    /\ i + Len(kw) - 1 <= Len(s)
    /\ \A j \in 1..Len(kw) : s[i + j - 1] = kw[j]

\* a wrong test, kw at the start of s only
Contains_at_start(kw, s) == MatchAt(kw, s, 1)
\* kw in s
Contains(kw, s) == \E i \in 1..(Len(s) + 1) : MatchAt(kw, s, i)

\* s.startswith(p)
StartsWith(s, p) == MatchAt(p, s, 1)

\* s.find(kw, from): the first index >= from where kw occurs, 0 when none
FindFrom(kw, s, from) ==
    LET hits == {i \in from..(Len(s) + 1) : MatchAt(kw, s, i)} IN
    IF hits = {} THEN 0 ELSE CHOOSE i \in hits : \A k \in hits : i <= k

\* s[a:b] with 1-based inclusive bounds
Slice(s, a, b) == IF b < a THEN <<>> ELSE SubSeq(s, a, b)

\* ------------------------------------------------------------ literals
s_Search_limited == <<"S","e","a","r","c","h"," ","l","i","m","i","t","e","d">>
s_OK == <<"O","K">>
s_ZERO_RESULTS == <<"Z","E","R","O","_","R","E","S","U","L","T","S">>

\* ------------------------------------------------------------ urlparse / get_domain
SchemeChars == {LowerAlpha[i] : i \in 1..26} \cup {UpperAlpha[i] : i \in 1..26} \cup Digits \cup {"+", "-", "."}

\* urlsplit: the scheme is what precedes the first ":" when those are scheme characters
SchemeEnd(url) ==
    LET c == FindFrom(<<":">>, url, 1) IN
    IF c > 1 /\ url[1] \notin Digits /\ \A i \in 1..(c - 1) : url[i] \in SchemeChars
    THEN c ELSE 0

\* urlparse(url).netloc: after "scheme:", the text between "//" and the next "/", "?" or "#"
netloc(url) ==
    LET rest == Slice(url, SchemeEnd(url) + 1, Len(url))
        stops == {i \in 3..Len(rest) : rest[i] \in {"/", "?", "#"}}
        last == IF stops = {} THEN Len(rest)
                ELSE (CHOOSE i \in stops : \A k \in stops : i <= k) - 1
    IN  IF StartsWith(rest, <<"/","/">>) THEN Slice(rest, 3, last) ELSE <<>>

get_domain(url) ==
    LET n == Lower(netloc(url)) IN
    IF StartsWith(n, <<"w","w","w",".">>) THEN Slice(n, 5, Len(n)) ELSE n

\* ------------------------------------------------------------ bounds
\* longest result list a Places search response carries
MaxResults == 2
\* longest photo-reference list of a Places detail record
MaxPhotos == 3

\* ------------------------------------------------------------ the form's inputs
name_Smile == <<"S","m","i","l","e">>
addr_Elm == <<"5"," ","E","l","m"," ","S","t",","," ","T","r","o","y",","," ","N","Y">>
url_https_www == <<"h","t","t","p","s",":","/","/","w","w","w",".","S","m","i","l","e",".","c","o","m">>
url_http == <<"h","t","t","p",":","/","/","s","m","i","l","e",".","c","o","m","/","h","o","m","e">>

Apps == {"part_000", "app"}
phone_518 == <<"5","1","8","-","5","5","5","-","0","1","0","0">>
\* the submitted forms: empty, complete, and the partial ones that give the resolver two, one
\* and no candidate query
Forms == {[clinic_name |-> <<>>, address |-> <<>>, phone |-> <<>>, website |-> <<>>],
          [clinic_name |-> name_Smile, address |-> addr_Elm, phone |-> phone_518, website |-> url_https_www],
          [clinic_name |-> name_Smile, address |-> <<>>, phone |-> <<>>, website |-> url_http],
          [clinic_name |-> name_Smile, address |-> <<>>, phone |-> phone_518, website |-> <<>>],
          [clinic_name |-> <<>>, address |-> addr_Elm, phone |-> <<>>, website |-> <<"s","m","i","l","e",".","c","o","m">>]}
Keys == {None, StrV(<<"k">>)}

\* ------------------------------------------------------------ fetched pages
text_rich == <<"F","o","u","n","d","e","d"," ","1","9","9","8","."," ","W","e"," ","a","c","c","e","p","t"," ","D","e","l","t","a"," ","D","e","n","t","a","l"," ","i","n","s","u","r","a","n","c","e","."," ","B","o","o","k"," ","v","i","a"," ","Z","o","c","d","o","c","."," ","B","r","a","c","e","s",".">>
text_poor == <<"F","a","m","i","l","y"," ","d","e","n","t","i","s","t","."," ","C","a","l","l"," ","u","s",".">>
text_mid == <<"S","m","i","l","e","s"," ","2","0","2","1","."," ","P","P","O"," ","p","l","a","n","s","."," ","S","c","h","e","d","u","l","e"," ","t","o","d","a","y","."," ","I","m","p","l","a","n","t","s",".">>
href_fb == <<"h","t","t","p","s",":","/","/","f","a","c","e","b","o","o","k",".","c","o","m","/","s","m","i","l","e">>

\* BeautifulSoup(r.text): get_text(" ", strip=True), the viewport meta tag, the anchors' hrefs,
\* the img and video/source element counts, the script markup
doc_rich == [t |-> "soup", text |-> text_rich, viewport |-> TRUE, hrefs |-> <<<<"/","h","o","m","e">>, href_fb, <<"h","t","t","p","s",":","/","/","w","w","w",".","i","n","s","t","a","g","r","a","m",".","c","o","m","/","s","m","i","l","e">>>>,
             imgs |-> 10, vids |-> 2, script |-> <<"g","t","a","g","(","'","j","s","'",")",";"," ","f","b","q","(","'","i","n","i","t","'",")",";">>]
doc_mid == [t |-> "soup", text |-> text_mid, viewport |-> TRUE, hrefs |-> <<href_fb>>,
            imgs |-> 3, vids |-> 0, script |-> <<>>]
doc_poor == [t |-> "soup", text |-> text_poor, viewport |-> FALSE, hrefs |-> <<>>,
             imgs |-> 0, vids |-> 0, script |-> <<>>]
\* the pages a GET can bring back, each with the elapsed seconds of the GET in hundredths
Pages == {<<doc_rich, 150>>, <<doc_mid, 350>>, <<doc_poor, 620>>, <<doc_mid, 150>>}

\* requests.get(url): raises before sending (no http/https scheme), raises after sending
\* (timeout, connection error), or returns a response with a status code
HasHttpScheme(url) ==
    LET e == SchemeEnd(url) IN
    e > 0 /\ Lower(Slice(url, 1, e - 1)) \in {<<"h","t","t","p">>, <<"h","t","t","p","s">>}
PageResponses(url) ==
    IF ~HasHttpScheme(url)
    THEN {[kind |-> "raise", sent |-> FALSE, code |-> 0, body |-> None, elapsed |-> 0]}
    ELSE {[kind |-> "raise", sent |-> TRUE, code |-> 0, body |-> None, elapsed |-> 0],
          [kind |-> "http", sent |-> TRUE, code |-> 404, body |-> None, elapsed |-> 150]}
         \cup {[kind |-> "http", sent |-> TRUE, code |-> 200, body |-> pg[1], elapsed |-> pg[2]] :
                  pg \in Pages}

\* ------------------------------------------------------------ Places API responses
PlaceIds == {StrV(<<"A">>), StrV(<<"B">>)}
\* a search result: its identifier and, for some places, a rating (in tenths of a star)
ResultOf(p) == [place_id |-> p, rating |-> IF p = StrV(<<"A">>) THEN [t |-> "float", v |-> 45] ELSE None]
RECURSIVE SeqsUpTo(_, _)
SeqsUpTo(S, n) ==
    IF n = 0 THEN {<<>>}
    ELSE LET shorter == SeqsUpTo(S, n - 1) IN
         shorter \cup {Append(s, x) : s \in {q \in shorter : Len(q) = n - 1}, x \in S}
ResultLists == SeqsUpTo({ResultOf(p) : p \in PlaceIds}, MaxResults)

\* the JSON body of a text search ("results") or a find-place lookup ("candidates")
SearchJson(key) ==
    {[t |-> "json", status |-> s_OK, list |-> l, key |-> key] : l \in ResultLists}
    \cup {[t |-> "json", status |-> s, list |-> <<>>, key |-> key] : s \in {s_ZERO_RESULTS, <<"R","E","Q","U","E","S","T","_","D","E","N","I","E","D">>}}
SearchResponses(key) ==
    {[kind |-> "raise", code |-> 0, body |-> None],
     [kind |-> "http", code |-> 500, body |-> None]}
    \cup {[kind |-> "http", code |-> 200, body |-> b] : b \in SearchJson(key)}

\* js.get(k): the list under key k, None (falsy) when the body has no such key
JsGet(js, k) == IF js.key = k THEN js.list ELSE <<>>

\* ------------------------------------------------------------ Places detail records
review_1 == <<"S","t","a","f","f"," ","w","e","r","e"," ","v","e","r","y"," ","f","r","i","e","n","d","l","y"," ","a","n","d"," ","t","h","e"," ","c","l","i","n","i","c"," ","w","a","s"," ","c","l","e","a","n">>
review_2 == <<"H","a","d"," ","t","o"," ","w","a","i","t"," ","a"," ","l","o","n","g"," ","t","i","m","e"," ","a","t"," ","r","e","c","e","p","t","i","o","n">>

\* details["result"]; a key the record lacks is None. rating is in tenths of a star.
res_full == [opening_hours |-> [t |-> "dict", weekday_text |-> <<<<"M","o","n",":"," ","9","-","5">>, <<"T","u","e",":"," ","9","-","7">>>>],
             photos |-> [t |-> "list", v |-> [i \in 1..MaxPhotos |-> "ref"]],
             website |-> StrV(url_http), international_phone_number |-> StrV(<<"+","1"," ","5","1","8","-","5","5","5","-","0","1","0","0">>),
             rating |-> [t |-> "float", v |-> 48], user_ratings_total |-> IntV(600),
             types |-> <<"dentist", "health">>, formatted_address |-> StrV(addr_Elm),
             reviews |-> <<[text |-> review_1], [text |-> review_2]>>]
res_mid == [opening_hours |-> None,
            photos |-> [t |-> "list", v |-> <<"ref">>],
            website |-> None, international_phone_number |-> StrV(<<"+","1"," ","5","1","8","-","5","5","5","-","0","1","0","0">>),
            rating |-> [t |-> "float", v |-> 45], user_ratings_total |-> IntV(124),
            types |-> <<"health">>, formatted_address |-> StrV(addr_Elm),
            reviews |-> <<>>]
res_bare == [opening_hours |-> None, photos |-> None, website |-> None,
             international_phone_number |-> None, rating |-> None, user_ratings_total |-> None,
             types |-> <<>>, formatted_address |-> None, reviews |-> <<>>]
PlaceResults == {res_full, res_mid, res_bare}

DetailsJson ==
    {[t |-> "json", status |-> s_OK, result |-> r] : r \in PlaceResults}
    \cup {[t |-> "json", status |-> <<"N","O","T","_","F","O","U","N","D">>, result |-> None]}
DetailsResponses ==
    {[kind |-> "raise", code |-> 0, body |-> None],
     [kind |-> "http", code |-> 500, body |-> None]}
    \cup {[kind |-> "http", code |-> 200, body |-> b] : b \in DetailsJson}

\* ------------------------------------------------------------ str formatting
DigitChars == <<"0","1","2","3","4","5","6","7","8","9">>
\* str(n) for n >= 0
RECURSIVE IntStr(_)
IntStr(n) == IF n < 10 THEN <<DigitChars[n + 1]>> ELSE IntStr(n \div 10) \o <<DigitChars[(n % 10) + 1]>>

\* sep.join(list)
RECURSIVE Join(_, _)
Join(sep, list) ==
    IF list = <<>> THEN <<>>
    ELSE IF Len(list) = 1 THEN list[1]
    ELSE list[1] \o sep \o Join(sep, Tail(list))

\* s.strip()
RECURSIVE Strip(_)
Strip(s) ==
    IF s = <<>> THEN s
    ELSE IF s[1] = " " THEN Strip(Tail(s))
    ELSE IF s[Len(s)] = " " THEN Strip(SubSeq(s, 1, Len(s) - 1))
    ELSE s

\* s.split(c) for a one-character separator
RECURSIVE SplitOn(_, _)
SplitOn(c, s) ==
    LET i == FindFrom(<<c>>, s, 1) IN
    IF i = 0 \/ i > Len(s) THEN <<s>>
    ELSE <<Slice(s, 1, i - 1)>> \o SplitOn(c, Slice(s, i + 1, Len(s)))

\* a wrong format of the time, with one decimal
Fixed2_one_decimal(h) == IntStr(h \div 100) \o <<".">> \o <<DigitChars[((h \div 10) % 10) + 1]>>
\* f"{x:.2f}" of a time kept in hundredths of a second
Fixed2(h) == IntStr(h \div 100) \o <<".">> \o <<DigitChars[((h \div 10) % 10) + 1], DigitChars[(h % 10) + 1]>>
\* repr of a float kept in tenths: 4.8, 5.0
Float1(x) == IntStr(x \div 10) \o <<".">> \o <<DigitChars[(x % 10) + 1]>>

SearchLimited == StrV(s_Search_limited)

\* ------------------------------------------------------------ site signal extractors
FoundingWords == {<<"e","s","t","a","b","l","i","s","h","e","d">>, <<"s","i","n","c","e">>, <<"s","e","r","v","i","n","g"," ","s","i","n","c","e">>, <<"f","o","u","n","d","e","d">>}

\* (19|20)\d{2} at position d
YearAt(s, d) ==
    /\ d >= 1 /\ d + 3 <= Len(s)
    /\ <<s[d], s[d + 1]>> \in {<<"1","9">>, <<"2","0">>}
    /\ s[d + 2] \in Digits /\ s[d + 3] \in Digits

\* the first digit at or after position e, 0 when none
RECURSIVE FirstDigit(_, _)
FirstDigit(s, e) ==
    IF e > Len(s) THEN 0 ELSE IF s[e] \in Digits THEN e ELSE FirstDigit(s, e + 1)

\* (established|since|serving since|founded)\D*((19|20)\d{2}) matched at position p, re.I:
\* \D* stops at the first digit, where the year has to start. The position of group 2, 0 when
\* there is no match at p.
FoundingYearAt(s, low, p) ==
    LET hits == {kw \in FoundingWords : MatchAt(kw, low, p)} IN
    IF hits = {} THEN 0
    ELSE LET kw == CHOOSE k \in hits : TRUE
             d == FirstDigit(s, p + Len(kw))
         IN  IF YearAt(s, d) THEN d ELSE 0

\* re.search: the leftmost position from p on where the pattern matches; group 2's position
RECURSIVE SearchFoundingYear(_, _, _)
SearchFoundingYear(s, low, p) ==
    IF p > Len(s) THEN 0
    ELSE IF FoundingYearAt(s, low, p) > 0 THEN FoundingYearAt(s, low, p)
    ELSE SearchFoundingYear(s, low, p + 1)

\* re.findall(r"(19|20)\d{2}", s): one entry per non-overlapping match, and because the
\* pattern has one group the entry is that group, "19" or "20"
RECURSIVE FindAllYears(_, _)
FindAllYears(s, i) ==
    IF i + 3 > Len(s) THEN <<>>
    ELSE IF YearAt(s, i) THEN <<Slice(s, i, i + 1)>> \o FindAllYears(s, i + 4)
    ELSE FindAllYears(s, i + 1)

\* min() of a list of "19"/"20" strings
MinYearPrefix(yrs) == IF \E i \in 1..Len(yrs) : yrs[i] = <<"1","9">> THEN <<"1","9">> ELSE <<"2","0">>

years_in_operation_from_site(doc) ==
    IF doc.t = "None" THEN SearchLimited
    ELSE LET text == doc.text
             d == SearchFoundingYear(text, Lower(text), 1)
             yrs == FindAllYears(text, 1)
         IN  IF d > 0 THEN StrV(Slice(text, d, d + 3))
             ELSE IF yrs # <<>> THEN StrV(MinYearPrefix(yrs)) ELSE SearchLimited

\* app_Basic.py years_in_operation: the years are collected first; the founding pattern is
\* searched only when there is one, and the year returned is the first one inside the match
years_in_operation(doc) ==
    IF doc.t = "None" THEN SearchLimited
    ELSE LET text == doc.text
             years == FindAllYears(text, 1)
             d == SearchFoundingYear(text, Lower(text), 1)
         IN  IF years # <<>>
             THEN IF d > 0 THEN StrV(Slice(text, d, d + 3)) ELSE StrV(MinYearPrefix(years))
             ELSE SearchLimited

\* specialties_from_site: the vocabulary, listed in sorted() order so that filtering it gives
\* sorted(set(k for k in keywords if k in text))
SpecialtyKeywords == <<<<"b","r","a","c","e","s">>, <<"b","r","i","d","g","e","s">>, <<"c","h","i","l","d","r","e","n">>, <<"c","o","s","m","e","t","i","c">>, <<"c","r","o","w","n","s">>, <<"d","e","n","t","a","l"," ","i","m","p","l","a","n","t","s">>,
                       <<"e","n","d","o","d","o","n","t","i","c","s">>, <<"g","e","n","e","r","a","l"," ","d","e","n","t","i","s","t","r","y">>, <<"g","u","m">>, <<"i","m","p","l","a","n","t">>, <<"i","m","p","l","a","n","t","s">>,
                       <<"i","n","v","i","s","a","l","i","g","n">>, <<"o","r","a","l"," ","s","u","r","g","e","r","y">>, <<"o","r","t","h","o","d","o","n","t","i","c","s">>, <<"p","e","d","i","a","t","r","i","c">>, <<"p","e","r","i","o","d","o","n","t","i","c","s">>,
                       <<"p","r","o","s","t","h","o","d","o","n","t","i","c","s">>, <<"r","o","o","t"," ","c","a","n","a","l">>, <<"s","l","e","e","p"," ","a","p","n","e","a">>, <<"t","m","j">>, <<"v","e","n","e","e","r","s">>, <<"w","h","i","t","e","n","i","n","g">>>>

specialties_from_site(doc) ==
    IF doc.t = "None" THEN SearchLimited
    ELSE LET text == Lower(doc.text)
             found == SelectSeq(SpecialtyKeywords, LAMBDA k : Contains(k, text))
         IN  IF found # <<>> THEN StrV(Join(<<","," ">>, found)) ELSE SearchLimited


Min(a, b) == IF a < b THEN a ELSE b

\* wrong variants of website_health: HTTPS worth 33 points like the other two checks, and no
\* early return for an empty URL
website_health_with(url, doc, lt, https_points, guarded) ==
    IF guarded /\ url = <<>> THEN [score |-> SearchLimited, checks |-> StrV(<<"N","o"," ","U","R","L">>)]
    ELSE LET https == StartsWith(Lower(url), <<"h","t","t","p","s">>)
             mobile == doc.t # "None" /\ doc.viewport
             speed == IF lt.t = "None" THEN 0 ELSE IF lt.v < 200 THEN 33 ELSE IF lt.v < 500 THEN 16 ELSE 0
             score == (IF https THEN https_points ELSE 0) + (IF mobile THEN 33 ELSE 0) + speed
             checks == << IF https THEN <<"H","T","T","P","S"," ","(v)">> ELSE <<"H","T","T","P","S"," ","(x)">>,
                          IF mobile THEN <<"M","o","b","i","l","e","-","f","r","i","e","n","d","l","y"," ","(v)">> ELSE <<"M","o","b","i","l","e","-","f","r","i","e","n","d","l","y"," ","(x)">>,
                          IF lt.t = "None" THEN <<"L","o","a","d"," ","s","p","e","e","d"," ","(?)">>
                          ELSE (IF lt.v < 200 THEN <<"L","o","a","d"," ","s","p","e","e","d"," ","(v)"," ","(">> ELSE IF lt.v < 500 THEN <<"L","o","a","d"," ","s","p","e","e","d"," ","(!)"," ","(">> ELSE <<"L","o","a","d"," ","s","p","e","e","d"," ","(x)"," ","(">>)
                               \o Fixed2(lt.v) \o <<"s",")">> >>
         IN  [score |-> StrV(IntStr(Min(score, 100)) \o <<"/","1","0","0">>), checks |-> StrV(Join(<<" ","|"," ">>, checks))]
website_health_https33(url, doc, lt) == website_health_with(url, doc, lt, 33, TRUE)
website_health_unguarded(url, doc, lt) == website_health_with(url, doc, lt, 34, FALSE)

\* website_health(url, soup, load_time): the (score string, checklist) pair, as a record.
\* load_time in hundredths of a second.
website_health(url, doc, lt) ==
    IF url = <<>> THEN [score |-> SearchLimited, checks |-> StrV(<<"N","o"," ","U","R","L">>)]
    ELSE LET https == StartsWith(Lower(url), <<"h","t","t","p","s">>)
             mobile == doc.t # "None" /\ doc.viewport
             speed == IF lt.t = "None" THEN 0 ELSE IF lt.v < 200 THEN 33 ELSE IF lt.v < 500 THEN 16 ELSE 0
             score == (IF https THEN 34 ELSE 0) + (IF mobile THEN 33 ELSE 0) + speed
             checks == << IF https THEN <<"H","T","T","P","S"," ","(v)">> ELSE <<"H","T","T","P","S"," ","(x)">>,
                          IF mobile THEN <<"M","o","b","i","l","e","-","f","r","i","e","n","d","l","y"," ","(v)">> ELSE <<"M","o","b","i","l","e","-","f","r","i","e","n","d","l","y"," ","(x)">>,
                          IF lt.t = "None" THEN <<"L","o","a","d"," ","s","p","e","e","d"," ","(?)">>
                          ELSE (IF lt.v < 200 THEN <<"L","o","a","d"," ","s","p","e","e","d"," ","(v)"," ","(">> ELSE IF lt.v < 500 THEN <<"L","o","a","d"," ","s","p","e","e","d"," ","(!)"," ","(">> ELSE <<"L","o","a","d"," ","s","p","e","e","d"," ","(x)"," ","(">>)
                               \o Fixed2(lt.v) \o <<"s",")">> >>
         IN  [score |-> StrV(IntStr(Min(score, 100)) \o <<"/","1","0","0">>), checks |-> StrV(Join(<<" ","|"," ">>, checks))]

s_None == <<"N","o","n","e">>
s_Facebook == <<"F","a","c","e","b","o","o","k">>
s_Instagram == <<"I","n","s","t","a","g","r","a","m">>
s_Facebook_Instagram == <<"F","a","c","e","b","o","o","k",","," ","I","n","s","t","a","g","r","a","m">>

AnyHref(doc, marker) == \E i \in 1..Len(doc.hrefs) : Contains(marker, doc.hrefs[i])

\* part_000: an absent page gives "None", the same value as a page without social links
social_presence_from_site(doc) ==
    IF doc.t = "None" THEN StrV(s_None)
    ELSE LET fb == AnyHref(doc, <<"f","a","c","e","b","o","o","k",".","c","o","m">>)
             ig == AnyHref(doc, <<"i","n","s","t","a","g","r","a","m",".","c","o","m">>)
         IN  IF fb /\ ig THEN StrV(s_Facebook_Instagram)
             ELSE IF fb THEN StrV(s_Facebook)
             ELSE IF ig THEN StrV(s_Instagram)
             ELSE StrV(s_None)

\* app.py: the (present, details) pair; an absent page gives the sentinel twice
social_presence_from_site_app(doc) ==
    IF doc.t = "None" THEN [present |-> SearchLimited, details |-> SearchLimited]
    ELSE [present |-> social_presence_from_site(doc), details |-> StrV(<<"F","o","l","l","o","w","e","r"," ","c","o","u","n","t","s"," ","&"," ","a","c","t","i","v","i","t","y"," ","r","e","q","u","i","r","e"," ","p","l","a","t","f","o","r","m"," ","A","P","I","s","/","l","o","g","i","n">>)]

media_count_from_site(doc) ==
    IF doc.t = "None" THEN SearchLimited
    ELSE StrV(IntStr(doc.imgs) \o <<" ","p","h","o","t","o","s",","," ">> \o IntStr(doc.vids) \o <<" ","v","i","d","e","o","s">>)

s_None_detected == <<"N","o","n","e"," ","d","e","t","e","c","t","e","d">>
\* str(soup): the markup, which holds the scripts and the text
Markup(doc) == doc.script \o <<" ">> \o doc.text

advertising_signals(doc) ==
    IF doc.t = "None" THEN SearchLimited
    ELSE LET html == Markup(doc)
             sig == (IF Contains(<<"g","t","a","g","(">>, html) \/ Contains(<<"g","t","a","g",".","j","s">>, html) \/ Contains(<<"w","w","w",".","g","o","o","g","l","e","t","a","g","m","a","n","a","g","e","r",".","c","o","m">>, html)
                     THEN <<<<"G","o","o","g","l","e"," ","t","a","g">>>> ELSE <<>>)
                    \o (IF Contains(<<"f","b","q","(">>, html) THEN <<<<"F","a","c","e","b","o","o","k"," ","P","i","x","e","l">>>> ELSE <<>>)
         IN  IF sig # <<>> THEN StrV(Join(<<","," ">>, sig)) ELSE StrV(s_None_detected)

s_booking_embedded == <<"O","n","l","i","n","e"," ","b","o","o","k","i","n","g"," ","(","e","m","b","e","d","d","e","d",")">>
s_booking_link == <<"O","n","l","i","n","e"," ","b","o","o","k","i","n","g"," ","(","l","i","n","k","/","f","o","r","m",")">>
s_phone_only == <<"P","h","o","n","e","-","o","n","l","y"," ","o","r"," ","u","n","c","l","e","a","r">>
appointment_booking_from_site(doc) ==
    IF doc.t = "None" THEN SearchLimited
    ELSE LET t == Lower(doc.text) IN
         IF \E p \in {<<"b","o","o","k">>, <<"a","p","p","o","i","n","t","m","e","n","t">>, <<"s","c","h","e","d","u","l","e">>, <<"r","e","s","e","r","v","e">>} : Contains(p, t)
         THEN IF Contains(<<"c","a","l","e","n","d","l","y">>, t) \/ Contains(<<"z","o","c","d","o","c">>, t) \/ Contains(<<"s","q","u","a","r","e"," ","a","p","p","o","i","n","t","m","e","n","t","s">>, t)
              THEN StrV(s_booking_embedded)
              ELSE StrV(s_booking_link)
         ELSE StrV(s_phone_only)

kw_insurance == <<"i","n","s","u","r","a","n","c","e">>
s_Unclear == <<"U","n","c","l","e","a","r">>
\* re.search(r"([^.]*insurance[^.]*\.)", t): [^.]* cannot cross a ".", so a match starting at p
\* needs "insurance" at or after p inside p's dot-free stretch and a "." ending that stretch.
\* The end of the match starting at p, 0 when there is none.
InsuranceMatchEnd(t, p) ==
    LET dot == FindFrom(<<".">>, t, p)
        k == FindFrom(kw_insurance, t, p)
    IN  IF dot # 0 /\ dot <= Len(t) /\ k # 0 /\ k + Len(kw_insurance) - 1 < dot THEN dot ELSE 0

\* re.search: the leftmost position from p on where a match starts, 0 when there is none
RECURSIVE SearchInsurance(_, _)
SearchInsurance(t, p) ==
    IF p > Len(t) THEN 0 ELSE IF InsuranceMatchEnd(t, p) # 0 THEN p ELSE SearchInsurance(t, p + 1)

insurance_from_site(doc) ==
    IF doc.t = "None" THEN SearchLimited
    ELSE LET t == Lower(doc.text) IN
         IF Contains(kw_insurance, t) \/ Contains(<<"w","e"," ","a","c","c","e","p","t">>, t) \/ Contains(<<"p","p","o">>, t)
            \/ Contains(<<"d","e","l","t","a"," ","d","e","n","t","a","l">>, t)
         THEN LET p == SearchInsurance(t, 1) IN
              IF p > 0 THEN StrV(Slice(t, p, InsuranceMatchEnd(t, p))) ELSE StrV(<<"M","e","n","t","i","o","n","e","d"," ","o","n"," ","s","i","t","e">>)
         ELSE StrV(s_Unclear)

\* ------------------------------------------------------------ listing signal extractors
DetailsOK(d) == d.t = "json" /\ d.status = s_OK

\* part_000 rating_and_reviews(details): (rating string, review count, reviews)
rating_and_reviews(d) ==
    IF ~DetailsOK(d) THEN [rating_str |-> SearchLimited, review_count |-> SearchLimited, reviews |-> <<>>]
    ELSE LET res == d.result IN
         [rating_str |-> IF res.rating.t # "None" THEN StrV(Float1(res.rating.v) \o <<"/","5">>)
                         ELSE SearchLimited,
          review_count |-> IF res.user_ratings_total.t # "None" THEN res.user_ratings_total
                           ELSE SearchLimited,
          reviews |-> res.reviews]

\* app.py extract_reviews_from_places(details_json): (reviews, rating, total)
extract_reviews_from_places(d) ==
    IF ~DetailsOK(d) THEN [reviews |-> <<>>, rating |-> None, total |-> None]
    ELSE [reviews |-> d.result.reviews, rating |-> d.result.rating, total |-> d.result.user_ratings_total]

\* part_000: "; ".join(weekday_text) when the list is there and not empty
office_hours_from_places(d) ==
    IF ~DetailsOK(d) THEN SearchLimited
    ELSE LET oh == d.result.opening_hours IN
         IF oh.t # "None" /\ oh.weekday_text # <<>> THEN StrV(Join(<<";"," ">>, oh.weekday_text))
         ELSE SearchLimited

photos_count_from_places(d) ==
    IF ~DetailsOK(d) THEN SearchLimited
    ELSE IF d.result.photos.t = "None" THEN IntV(0) ELSE IntV(Len(d.result.photos.v))

\* app.py accessibility_from_places: the detail request does not ask for accessibility_options,
\* so the record never has them
accessibility_from_places(d) == SearchLimited


PhotoCount(res) == IF res.photos.t = "None" THEN 0 ELSE Len(res.photos.v)
HasDentalType(res) == \E i \in 1..Len(res.types) : res.types[i] \in {"dentist", "dental_clinic"}
HasReviews(res) ==
    /\ res.rating.t # "None" /\ res.rating.v # 0
    /\ res.user_ratings_total.t # "None" /\ res.user_ratings_total.v > 0

\* the score and checklist of the seven signals, given whether hours and photos count as
\* present and the photo count the checklist shows
GbpChecklist(res, hours, photos, shown) ==
    LET score == (IF hours THEN 20 ELSE 0) + (IF photos THEN 20 ELSE 0)
                 + (IF Truthy(res.website) THEN 15 ELSE 0)
                 + (IF Truthy(res.international_phone_number) THEN 15 ELSE 0)
                 + (IF HasReviews(res) THEN 10 ELSE 0)
                 + (IF HasDentalType(res) THEN 10 ELSE 0)
                 + (IF Truthy(res.formatted_address) THEN 10 ELSE 0)
        checks == << IF hours THEN <<"H","o","u","r","s"," ","(v)">> ELSE <<"H","o","u","r","s"," ","(x)">>,
                     (IF photos THEN <<"P","h","o","t","o","s"," ","(v)"," ","(">> ELSE <<"P","h","o","t","o","s"," ","(x)"," ","(">>)
                        \o IntStr(shown) \o <<")">>,
                     IF Truthy(res.website) THEN <<"W","e","b","s","i","t","e"," ","(v)">> ELSE <<"W","e","b","s","i","t","e"," ","(x)">>,
                     IF Truthy(res.international_phone_number) THEN <<"P","h","o","n","e"," ","(v)">> ELSE <<"P","h","o","n","e"," ","(x)">>,
                     IF HasReviews(res) THEN <<"R","e","v","i","e","w","s"," ","(v)">> ELSE <<"R","e","v","i","e","w","s"," ","(x)">>,
                     IF HasDentalType(res) THEN <<"C","a","t","e","g","o","r","y"," ","(v)">> ELSE <<"C","a","t","e","g","o","r","y"," ","(x)">>,
                     IF Truthy(res.formatted_address) THEN <<"A","d","d","r","e","s","s"," ","(v)">> ELSE <<"A","d","d","r","e","s","s"," ","(x)">> >>
    IN  [score |-> StrV(IntStr(Min(score, 100)) \o <<"/","1","0","0">>), checks |-> StrV(Join(<<" ","|"," ">>, checks))]

\* part_000, inline in the run: photos count with one reference or more
gbp_completeness(d) ==
    IF ~DetailsOK(d) THEN [score |-> SearchLimited, checks |-> SearchLimited]
    ELSE GbpChecklist(d.result, d.result.opening_hours.t # "None", PhotoCount(d.result) >= 1,
                      PhotoCount(d.result))

\* a wrong estimate, where one photo reference is enough
gbp_completeness_estimate_one_photo(d) ==
    IF ~DetailsOK(d) THEN [score |-> SearchLimited, checks |-> None]
    ELSE GbpChecklist(d.result, d.result.opening_hours.t # "None", PhotoCount(d.result) >= 1,
                      PhotoCount(d.result))

\* app.py gbp_completeness_estimate(details): photos count from three references on; a record
\* whose status is not OK gives ("Search limited", None)
gbp_completeness_estimate(d) ==
    IF ~DetailsOK(d) THEN [score |-> SearchLimited, checks |-> None]
    ELSE GbpChecklist(d.result, d.result.opening_hours.t # "None", PhotoCount(d.result) >= 3,
                      PhotoCount(d.result))

\* app.py office_hours_from_places: joins weekday_text whenever the key is there
office_hours_from_places_app(d) ==
    IF ~DetailsOK(d) THEN SearchLimited
    ELSE LET oh == d.result.opening_hours IN
         IF oh.t # "None" THEN StrV(Join(<<";"," ">>, oh.weekday_text)) ELSE SearchLimited

\* ------------------------------------------------------------ review text analyzer
positive_themes == <<
    [theme |-> <<"f","r","i","e","n","d","l","y"," ","s","t","a","f","f">>,
     kws |-> <<<<"f","r","i","e","n","d","l","y">>,
              <<"k","i","n","d">>,
              <<"c","a","r","i","n","g">>,
              <<"n","i","c","e">>,
              <<"w","e","l","c","o","m","i","n","g">>,
              <<"c","o","u","r","t","e","o","u","s">>>>],
    [theme |-> <<"c","l","e","a","n","l","i","n","e","s","s">>,
     kws |-> <<<<"c","l","e","a","n">>,
              <<"h","y","g","i","e","n","i","c">>,
              <<"s","p","o","t","l","e","s","s">>>>],
    [theme |-> <<"p","a","i","n","-","f","r","e","e"," ","e","x","p","e","r","i","e","n","c","e">>,
     kws |-> <<<<"p","a","i","n","l","e","s","s">>,
              <<"n","o"," ","p","a","i","n">>,
              <<"g","e","n","t","l","e">>,
              <<"p","a","i","n"," ","f","r","e","e">>,
              <<"c","o","m","f","o","r","t","a","b","l","e">>>>],
    [theme |-> <<"p","r","o","f","e","s","s","i","o","n","a","l","i","s","m">>,
     kws |-> <<<<"p","r","o","f","e","s","s","i","o","n","a","l">>,
              <<"e","x","p","e","r","t">>,
              <<"k","n","o","w","l","e","d","g","e","a","b","l","e">>>>],
    [theme |-> <<"c","o","m","m","u","n","i","c","a","t","i","o","n">>,
     kws |-> <<<<"e","x","p","l","a","i","n","e","d">>,
              <<"e","x","p","l","a","i","n">>,
              <<"t","r","a","n","s","p","a","r","e","n","t">>,
              <<"i","n","f","o","r","m","a","t","i","v","e">>>>]
>>

negative_themes == <<
    [theme |-> <<"l","o","n","g"," ","w","a","i","t">>,
     kws |-> <<<<"w","a","i","t">>,
              <<"w","a","i","t","i","n","g">>,
              <<"l","a","t","e">>,
              <<"d","e","l","a","y">>,
              <<"o","v","e","r","b","o","o","k","e","d">>>>],
    [theme |-> <<"b","i","l","l","i","n","g"," ","i","s","s","u","e","s">>,
     kws |-> <<<<"b","i","l","l","i","n","g">>,
              <<"c","h","a","r","g","e","s">>,
              <<"o","v","e","r","c","h","a","r","g","e","d">>,
              <<"i","n","v","o","i","c","e">>,
              <<"i","n","s","u","r","a","n","c","e"," ","p","r","o","b","l","e","m">>>>],
    [theme |-> <<"f","r","o","n","t"," ","d","e","s","k"," ","e","x","p","e","r","i","e","n","c","e">>,
     kws |-> <<<<"f","r","o","n","t"," ","d","e","s","k">>,
              <<"r","e","c","e","p","t","i","o","n">>,
              <<"r","u","d","e">>,
              <<"u","n","h","e","l","p","f","u","l">>>>],
    [theme |-> <<"p","a","i","n","/","d","i","s","c","o","m","f","o","r","t">>,
     kws |-> <<<<"p","a","i","n","f","u","l">>,
              <<"h","u","r","t">>,
              <<"r","o","u","g","h">>,
              <<"u","n","c","o","m","f","o","r","t","a","b","l","e">>>>],
    [theme |-> <<"u","p","s","e","l","l","i","n","g">>,
     kws |-> <<<<"u","p","s","e","l","l">>,
              <<"s","a","l","e","s","y">>,
              <<"s","o","l","d"," ","m","e">>,
              <<"p","u","s","h","y">>>>]
>>

\* a count that resumes one character after the start of the previous occurrence
RECURSIVE Count_overlapping(_, _, _)
Count_overlapping(kw, s, from) ==
    LET i == FindFrom(kw, s, from) IN
    IF i = 0 \/ i > Len(s) THEN 0 ELSE 1 + Count_overlapping(kw, s, i + 1)

\* text.count(kw): the occurrences found scanning left to right, each search resuming after
\* the end of the previous occurrence
RECURSIVE Count(_, _, _)
Count(kw, s, from) ==
    LET i == FindFrom(kw, s, from) IN
    IF i = 0 \/ i > Len(s) THEN 0 ELSE 1 + Count(kw, s, i + Len(kw))

RECURSIVE SumCounts(_, _)
SumCounts(kws, s) == IF kws = <<>> THEN 0 ELSE Count(kws[1], s, 1) + SumCounts(Tail(kws), s)

\* a sort that leaves the themes in the order of the table
SortDesc_unsorted(items) == items

\* sorted(items, key=count, reverse=True): descending, equal counts keep their order
RECURSIVE SortDesc(_)
SortDesc(items) ==
    IF items = <<>> THEN <<>>
    ELSE LET best == CHOOSE i \in 1..Len(items) :
                        /\ \A k \in 1..Len(items) : items[k].c <= items[i].c
                        /\ \A k \in 1..(i - 1) : items[k].c < items[i].c
         IN  <<items[best]>> \o SortDesc(SubSeq(items, 1, best - 1) \o SubSeq(items, best + 1, Len(items)))

\* count_hits(theme_dict): (theme, count) for the themes with a hit, most hits first
count_hits(theme_dict, text_blob) ==
    LET all == [i \in 1..Len(theme_dict) |->
                   [theme |-> theme_dict[i].theme, c |-> SumCounts(theme_dict[i].kws, text_blob)]]
    IN  SortDesc(SelectSeq(all, LAMBDA x : x.c > 0))

\* a total over the three themes with the most hits only
SumHits_top3(items) ==
    IF items = <<>> THEN 0
    ELSE items[1].c + (IF Len(items) > 1 THEN items[2].c ELSE 0) + (IF Len(items) > 2 THEN items[3].c ELSE 0)

RECURSIVE SumHits(_)
SumHits(items) == IF items = <<>> THEN 0 ELSE items[1].c + SumHits(Tail(items))

top3(items) ==
    IF items = <<>> THEN StrV(s_None_detected)
    ELSE LET top == SubSeq(items, 1, Min(3, Len(items))) IN
         StrV(Join(<<";"," ">>, [i \in 1..Len(top) |-> top[i].theme \o <<" ","(">> \o IntStr(top[i].c) \o <<")">>]))

text_blob_of(reviews) == Lower(Join(<<" ">>, [i \in 1..Len(reviews) |-> reviews[i].text]))

\* analyze_review_texts(reviews): (sentiment, top positive themes, top negative themes)
analyze_review_texts(reviews) ==
    IF reviews = <<>>
    THEN [sentiment |-> SearchLimited, top_pos |-> SearchLimited, top_neg |-> SearchLimited]
    ELSE LET blob == text_blob_of(reviews)
             pos == count_hits(positive_themes, blob)
             neg == count_hits(negative_themes, blob)
             pos_total == SumHits(pos)
             neg_total == SumHits(neg)
             sentiment ==
                 IF pos_total = 0 /\ neg_total = 0 THEN <<"M","i","x","e","d","/","n","e","u","t","r","a","l"," ","(","f","e","w"," ","o","b","v","i","o","u","s"," ","t","h","e","m","e","s",")">>
                 ELSE IF pos_total >= neg_total
                 THEN <<"M","o","s","t","l","y"," ","p","o","s","i","t","i","v","e"," ","m","e","n","t","i","o","n","s"," ","(">> \o IntStr(pos_total) \o <<" ","v","s"," ">> \o IntStr(neg_total) \o <<")">>
                 ELSE <<"M","i","x","e","d"," ","w","i","t","h"," ","n","o","t","a","b","l","e"," ","c","o","n","c","e","r","n","s"," ","(">> \o IntStr(neg_total) \o <<" ","n","e","g","a","t","i","v","e","s"," ","v","s"," ">> \o IntStr(pos_total) \o <<" ","p","o","s","i","t","i","v","e","s",")">>
         IN  [sentiment |-> StrV(sentiment), top_pos |-> top3(pos), top_neg |-> top3(neg)]

\* ------------------------------------------------------------ score aggregator
\* int(s) of a digit string; -1 stands for the ValueError
RECURSIVE ParseInt(_)
ParseInt(s) ==
    IF s = <<>> THEN -1
    ELSE IF \E i \in 1..Len(s) : s[i] \notin Digits THEN -1
    ELSE IF Len(s) = 1 THEN (CHOOSE d \in 0..9 : DigitChars[d + 1] = s[1])
    ELSE 10 * ParseInt(SubSeq(s, 1, Len(s) - 1)) + (CHOOSE d \in 0..9 : DigitChars[d + 1] = s[Len(s)])

\* to_pct_from_score_str(s): "85/100" -> 85, anything else -> None
to_pct_from_score_str(s) ==
    IF s.t = "str" /\ Contains(<<"/">>, s.v)
    THEN LET n == ParseInt(SplitOn("/", s.v)[1]) IN IF n >= 0 THEN IntV(n) ELSE None
    ELSE None

\* a float() that drops the decimal
ParseFloat1_whole(s) ==
    LET parts == SplitOn(".", s) IN
    IF Len(parts) = 2 /\ ParseInt(parts[1]) >= 0 /\ Len(parts[2]) = 1 /\ ParseInt(parts[2]) >= 0
    THEN [t |-> "float", v |-> 10 * ParseInt(parts[1])]
    ELSE None

\* float(x) of "d.d", in tenths; None for what float() rejects
ParseFloat1(s) ==
    LET parts == SplitOn(".", s) IN
    IF Len(parts) = 2 /\ ParseInt(parts[1]) >= 0 /\ Len(parts[2]) = 1 /\ ParseInt(parts[2]) >= 0
    THEN [t |-> "float", v |-> 10 * ParseInt(parts[1]) + ParseInt(parts[2])]
    ELSE None

\* the run's rating_val: float(rating_str.split("/")[0]) when rating_str ends with "/5"
rating_val_of(rating_str) ==
    IF rating_str.t = "str" /\ Len(rating_str.v) >= 2
       /\ Slice(rating_str.v, Len(rating_str.v) - 1, Len(rating_str.v)) = <<"/","5">>
    THEN ParseFloat1(SplitOn("/", rating_str.v)[1])
    ELSE None

RECURSIVE Sum(_)
Sum(parts) == IF parts = <<>> THEN 0 ELSE parts[1] + Sum(Tail(parts))

IsNumber(x) == x.t \in {"int", "float"}

\* The parts of each bucket, in tenths of a percent. rating is in tenths of a star, so
\* (rating/5.0)*100 is 20 * rating.v; min(1, n/500)*100 is min(1000, 2n).
vis_parts(a) ==
    (IF IsNumber(a.wh_pct) THEN <<10 * a.wh_pct.v>> ELSE <<>>)
    \o << IF a.social_present = StrV(s_Facebook_Instagram) THEN 1000
          ELSE IF a.social_present \in {StrV(s_Facebook), StrV(s_Instagram)} THEN 600
          ELSE 0 >>
\* wrong reputation parts, the review volume not capped at 100
rep_parts_uncapped(a) ==
    (IF IsNumber(a.rating) THEN <<20 * a.rating.v>> ELSE <<>>)
    \o (IF IsNumber(a.reviews_total) THEN <<2 * a.reviews_total.v>> ELSE <<>>)
rep_parts(a) ==
    (IF IsNumber(a.rating) THEN <<20 * a.rating.v>> ELSE <<>>)
    \o (IF IsNumber(a.reviews_total) THEN <<Min(1000, 2 * a.reviews_total.v)>> ELSE <<>>)
\* wrong experience parts, where online booking and clear insurance count for the full 100
exp_parts_full(a) ==
    (IF Truthy(a.booking) /\ Contains(<<"O","n","l","i","n","e"," ","b","o","o","k","i","n","g">>, a.booking.v) THEN <<1000>>
     ELSE IF Truthy(a.booking) /\ Contains(<<"P","h","o","n","e","-","o","n","l","y">>, a.booking.v) THEN <<400>>
     ELSE <<>>)
    \o (IF a.hours_present THEN <<700>> ELSE <<>>)
    \o (IF a.insurance_clear THEN <<1000>> ELSE <<>>)
    \o (IF a.accessibility_present THEN <<700>> ELSE <<>>)
exp_parts(a) ==
    (IF Truthy(a.booking) /\ Contains(<<"O","n","l","i","n","e"," ","b","o","o","k","i","n","g">>, a.booking.v) THEN <<800>>
     ELSE IF Truthy(a.booking) /\ Contains(<<"P","h","o","n","e","-","o","n","l","y">>, a.booking.v) THEN <<400>>
     ELSE <<>>)
    \o (IF a.hours_present THEN <<700>> ELSE <<>>)
    \o (IF a.insurance_clear THEN <<800>> ELSE <<>>)
    \o (IF a.accessibility_present THEN <<700>> ELSE <<>>)

\* A bucket score before rounding, (avg/100)*weight, as an exact fraction: the number of
\* 1/1200 of a tenth of a point (a bucket has at most four parts, and 12 = lcm(1,2,3,4)).
\* An empty bucket averages 0.
\* two wrong bucket scores: the parts summed and not averaged, and a floor of 10 points for a
\* bucket without parts
BucketScore_summed(parts, weight) == Sum(parts) * weight * 12
BucketScore_floor10(parts, weight) ==
    IF parts = <<>> THEN 100 * 1200 ELSE Sum(parts) * weight * (12 \div Len(parts))
Denom == 1200
BucketScore(parts, weight) ==
    IF parts = <<>> THEN 0 ELSE Sum(parts) * weight * (12 \div Len(parts))

\* round(x, 1), in tenths. x is a binary float: where the exact score lies halfway between
\* two tenths, the float that was computed lies a rounding error to either side of it, so
\* either neighbour can come out.
Round1(x) ==
    LET q == x \div Denom
        r == x % Denom
    IN  IF 2 * r < Denom THEN {q} ELSE IF 2 * r > Denom THEN {q + 1} ELSE {q, q + 1}

\* a wrong aggregator, whose composite leaves the experience bucket out
compute_smile_score_without_exp(a) ==
    LET vis_score == BucketScore(vis_parts(a), 30)
        rep_score == BucketScore(rep_parts(a), 40)
        exp_score == BucketScore(exp_parts(a), 30)
    IN  {[total |-> t, vis |-> v, rep |-> r, exp |-> e] :
            t \in Round1(vis_score + rep_score),
            v \in Round1(vis_score), r \in Round1(rep_score), e \in Round1(exp_score)}

\* compute_smile_score(...): the (total, vis, rep, exp) it can return, in tenths of a point
compute_smile_score(a) ==
    LET vis_score == BucketScore(vis_parts(a), 30)
        rep_score == BucketScore(rep_parts(a), 40)
        exp_score == BucketScore(exp_parts(a), 30)
    IN  {[total |-> t, vis |-> v, rep |-> r, exp |-> e] :
            t \in Round1(vis_score + rep_score + exp_score),
            v \in Round1(vis_score), r \in Round1(rep_score), e \in Round1(exp_score)}

\* app_Basic.py compute_smile_score(visibility_subscores, reputation_subscores,
\* experience_subscores): every subscore is a percentage or None, avg() keeps the numbers, and a
\* bucket with no number scores the fallback 10
Numbers(xs) == LET kept == SelectSeq(xs, IsNumber) IN [i \in 1..Len(kept) |-> 10 * kept[i].v]
BucketScore_Basic(parts, weight) ==
    IF parts = <<>> THEN 10 * 10 * Denom ELSE Sum(parts) * weight * (12 \div Len(parts))
vis_parts_Basic(a) == Numbers(<<a.wh, a.sp>>)
rep_parts_Basic(a) == Numbers(<<a.rating_pct, a.volume_pct, a.sentiment_pct, a.response_pct>>)
exp_parts_Basic(a) == Numbers(<<a.booking_pct, a.hours_pct, a.insurance_pct, a.accessibility_pct>>)
compute_smile_score_Basic(a) ==
    LET vis_score == BucketScore_Basic(vis_parts_Basic(a), 30)
        rep_score == BucketScore_Basic(rep_parts_Basic(a), 40)
        exp_score == BucketScore_Basic(exp_parts_Basic(a), 30)
    IN  {[total |-> t, vis |-> v, rep |-> r, exp |-> e] :
            t \in Round1(vis_score + rep_score + exp_score),
            v \in Round1(vis_score), r \in Round1(rep_score), e \in Round1(exp_score)}

\* ------------------------------------------------------------ advice
\* advise(metric, value): the recommendation shown beside a metric. Symbols outside ASCII are
\* one element each: "(en-dash)", "(times)", "(star)".
advise(metric, value) ==
    IF value = None THEN <<>>
    ELSE
    LET \* str(value)
        text == IF value.t = "str" THEN value.v
                ELSE IF value.t = "int" THEN IntStr(value.v) ELSE Float1(value.v)
        s == Lower(Strip(text))
        m == Lower(metric)
        nailed == <<"Y","o","u"," ","n","a","i","l","e","d"," ","i","t">>
        \* pct_from_score_str(value): int(x) of a number, int(x.split("/")[0]) of a string
        \* with "/", None for what int() rejects and for every other string
        head == SplitOn("/", text)[1]
        pct == IF value.t = "int" THEN value.v
               ELSE IF value.t = "float" THEN value.v \div 10
               ELSE IF Contains(<<"/">>, text) THEN ParseInt(Strip(head)) ELSE -1
        \* float(str(value).split("/")[0]) in tenths, -1 for the ValueError
        rating == IF ParseInt(Strip(head)) >= 0 THEN 10 * ParseInt(Strip(head))
                  ELSE IF ParseFloat1(Strip(head)) # None THEN ParseFloat1(Strip(head)).v ELSE -1
        \* int(value), -1 for the ValueError
        n == IF value.t = "int" THEN value.v
             ELSE IF value.t = "float" THEN value.v \div 10 ELSE ParseInt(Strip(text))
    IN
    IF \E marker \in {<<"s","e","a","r","c","h"," ","l","i","m","i","t","e","d">>, <<"n","o","t"," ","a","v","a","i","l","a","b","l","e"," ","v","i","a"," ","p","l","a","c","e","s"," ","a","p","i">>, <<"r","e","q","u","e","s","t","_","d","e","n","i","e","d">>, <<"i","n","v","a","l","i","d"," ","r","e","q","u","e","s","t">>, <<"p","e","r","m","i","s","s","i","o","n"," ","d","e","n","i","e","d">>, <<"z","e","r","o","_","r","e","s","u","l","t","s">>} : Contains(marker, s) THEN <<>>
    ELSE IF Contains(<<"w","e","b","s","i","t","e"," ","h","e","a","l","t","h"," ","s","c","o","r","e">>, m)
         THEN IF pct >= 90 THEN nailed ELSE <<"I","m","p","r","o","v","e"," ","H","T","T","P","S","/","m","o","b","i","l","e","/","s","p","e","e","d">>
    ELSE IF Contains(<<"g","b","p"," ","c","o","m","p","l","e","t","e","n","e","s","s">>, m)
         THEN IF pct >= 90 THEN nailed ELSE <<"A","d","d"," ","h","o","u","r","s",","," ","p","h","o","t","o","s",","," ","w","e","b","s","i","t","e",","," ","p","h","o","n","e"," ","o","n"," ","G","B","P">>
    ELSE IF Contains(<<"s","e","a","r","c","h"," ","v","i","s","i","b","i","l","i","t","y">>, m)
         THEN IF Contains(<<"y","e","s">>, s) THEN nailed ELSE <<"I","m","p","r","o","v","e"," ","l","o","c","a","l"," ","S","E","O"," ","&"," ","c","i","t","a","t","i","o","n","s">>
    ELSE IF Contains(<<"s","o","c","i","a","l"," ","m","e","d","i","a"," ","p","r","e","s","e","n","c","e">>, m)
         THEN IF Contains(<<"f","a","c","e","b","o","o","k",","," ","i","n","s","t","a","g","r","a","m">>, s) THEN nailed
              ELSE IF Contains(<<"f","a","c","e","b","o","o","k">>, s) \/ Contains(<<"i","n","s","t","a","g","r","a","m">>, s) THEN <<"A","d","d"," ","t","h","e"," ","o","t","h","e","r"," ","p","l","a","t","f","o","r","m"," ","&"," ","p","o","s","t"," ","w","e","e","k","l","y">>
              ELSE <<"A","d","d"," ","F","B","/","I","G"," ","l","i","n","k","s",";"," ","p","o","s","t"," ","2","(en-dash)","3","(times)","/","w","e","e","k">>
    ELSE IF Contains(<<"g","o","o","g","l","e"," ","r","e","v","i","e","w","s"," ","(","a","v","g",")">>, m)
         THEN IF rating < 0 THEN <<>>
              ELSE IF rating >= 46 THEN nailed
              ELSE IF rating >= 40 THEN <<"A","s","k"," ","h","a","p","p","y"," ","p","a","t","i","e","n","t","s"," ","f","o","r"," ","r","e","v","i","e","w","s"," ","t","o"," ","r","e","a","c","h"," ","4",".","6","+">>
              ELSE <<"A","d","d","r","e","s","s"," ","n","e","g","a","t","i","v","e","s"," ","&"," ","r","e","q","u","e","s","t"," ","f","r","e","s","h"," ","5","(star)"," ","r","e","v","i","e","w","s">>
    ELSE IF Contains(<<"t","o","t","a","l"," ","g","o","o","g","l","e"," ","r","e","v","i","e","w","s">>, m)
         THEN IF n < 0 THEN <<>>
              ELSE IF n >= 300 THEN nailed
              ELSE IF n >= 100 THEN <<"R","u","n"," ","a"," ","m","o","n","t","h","l","y"," ","r","e","v","i","e","w"," ","d","r","i","v","e"," ","t","o"," ","h","i","t"," ","3","0","0">>
              ELSE <<"L","a","u","n","c","h"," ","Q","R","/","S","M","S"," ","r","e","v","i","e","w"," ","a","s","k"," ","a","t"," ","c","h","e","c","k","o","u","t">>
    ELSE IF Contains(<<"a","p","p","o","i","n","t","m","e","n","t"," ","b","o","o","k","i","n","g">>, m)
         THEN IF Contains(<<"o","n","l","i","n","e"," ","b","o","o","k","i","n","g">>, s) THEN nailed ELSE <<"A","d","d"," ","a","n"," ","o","n","l","i","n","e"," ","b","o","o","k","i","n","g"," ","l","i","n","k","/","b","u","t","t","o","n">>
    ELSE IF Contains(<<"o","f","f","i","c","e"," ","h","o","u","r","s">>, m)
         THEN <<"O","f","f","e","r"," ","e","v","e","n","i","n","g","s","/","w","e","e","k","e","n","d","s"," ","t","o"," ","b","o","o","s","t"," ","c","o","n","v","e","r","s","i","o","n","s">>
    ELSE IF Contains(<<"i","n","s","u","r","a","n","c","e"," ","a","c","c","e","p","t","a","n","c","e">>, m)
         THEN IF ~Contains(<<"u","n","c","l","e","a","r">>, s) THEN nailed ELSE <<"P","u","b","l","i","s","h"," ","a","c","c","e","p","t","e","d"," ","p","l","a","n","s"," ","o","n"," ","s","i","t","e"," ","&"," ","G","B","P">>
    ELSE IF Contains(<<"s","e","n","t","i","m","e","n","t"," ","h","i","g","h","l","i","g","h","t","s">>, m)
         THEN IF Contains(<<"m","o","s","t","l","y"," ","p","o","s","i","t","i","v","e">>, s) THEN nailed
              ELSE IF Contains(<<"m","i","x","e","d">>, s) THEN <<"F","i","x"," ","t","o","p"," ","n","e","g","a","t","i","v","e","s"," ","&"," ","r","e","p","l","y"," ","t","o"," ","r","e","v","i","e","w","s">>
              ELSE <<"R","e","p","l","y"," ","t","o"," ","n","e","g","a","t","i","v","e"," ","t","h","e","m","e","s"," ","w","i","t","h"," ","s","o","l","u","t","i","o","n","s">>
    ELSE IF Contains(<<"t","o","p"," ","p","o","s","i","t","i","v","e"," ","t","h","e","m","e","s">>, m)
         THEN IF ~Contains(<<"n","o","n","e"," ","d","e","t","e","c","t","e","d">>, s) THEN <<"A","m","p","l","i","f","y"," ","t","h","e","s","e"," ","t","h","e","m","e","s"," ","o","n"," ","w","e","b","s","i","t","e"," ","&"," ","a","d","s">> ELSE <<>>
    ELSE IF Contains(<<"t","o","p"," ","n","e","g","a","t","i","v","e"," ","t","h","e","m","e","s">>, m)
         THEN IF Contains(<<"n","o","n","e"," ","d","e","t","e","c","t","e","d">>, s) THEN nailed
              ELSE IF Contains(<<"l","o","n","g"," ","w","a","i","t">>, s) THEN <<"S","t","a","g","g","e","r"," ","s","c","h","e","d","u","l","i","n","g"," ","&"," ","a","d","d"," ","S","M","S"," ","r","e","m","i","n","d","e","r","s">>
              ELSE IF Contains(<<"b","i","l","l","i","n","g">>, s) THEN <<"C","l","a","r","i","f","y"," ","e","s","t","i","m","a","t","e","s"," ","&"," ","b","i","l","l","i","n","g"," ","S","O","P">>
              ELSE IF Contains(<<"f","r","o","n","t"," ","d","e","s","k">>, s) THEN <<"T","r","a","i","n"," ","f","r","o","n","t"," ","d","e","s","k"," ","o","n"," ","e","m","p","a","t","h","y"," ","s","c","r","i","p","t","s">>
              ELSE <<"T","a","c","k","l","e"," ","t","o","p"," ","1","(en-dash)","2"," ","n","e","g","a","t","i","v","e"," ","t","h","e","m","e","s"," ","t","h","i","s"," ","m","o","n","t","h">>
    ELSE IF Contains(<<"p","h","o","t","o","s">>, m)
         THEN IF ~Contains(<<"n","o","n","e">>, s) /\ ~Contains(<<"0">>, s) THEN nailed ELSE <<"U","p","l","o","a","d"," ","1","0","(en-dash)","2","0"," ","c","l","i","n","i","c"," ","&"," ","t","e","a","m"," ","p","h","o","t","o","s">>
    ELSE IF Contains(<<"a","d","v","e","r","t","i","s","i","n","g"," ","s","c","r","i","p","t","s">>, m)
         THEN IF ~Contains(<<"n","o","n","e">>, s) THEN nailed ELSE <<"A","d","d"," ","G","A","4","/","A","d","s"," ","p","i","x","e","l"," ","f","o","r"," ","c","o","n","v","e","r","s","i","o","n"," ","t","r","a","c","k","i","n","g">>
    ELSE <<>>

\* ------------------------------------------------------------ web search (Custom Search)
link_other == <<"h","t","t","p","s",":","/","/","t","o","o","t","h","c","a","r","e",".","o","r","g","/">>
title_other == <<"B","e","s","t"," ","d","e","n","t","i","s","t","s"," ","i","n"," ","T","r","o","y">>
snippet_other == <<"C","o","m","p","a","r","e"," ","l","o","c","a","l"," ","c","l","i","n","i","c","s">>

\* the city: the last but one of the address's comma-separated parts, stripped; None when the
\* address has no comma
city_of(addr) ==
    LET parts == SplitOn(",", addr) IN
    IF addr # <<>> /\ Contains(<<",">>, addr) /\ Len(parts) >= 2
    THEN StrV(Strip(parts[Len(parts) - 1])) ELSE None

cse_query(name, addr) ==
    IF Truthy(city_of(addr)) THEN <<"d","e","n","t","i","s","t"," ","n","e","a","r"," ">> \o city_of(addr).v
    ELSE Strip(<<"d","e","n","t","i","s","t"," ","n","e","a","r"," ","m","e"," ">> \o name)

CseItemLists == { <<>>,
                  <<[link |-> link_other, title |-> title_other, snippet |-> snippet_other]>>,
                  <<[link |-> link_other, title |-> title_other, snippet |-> snippet_other],
                    [link |-> <<"h","t","t","p","s",":","/","/","w","w","w",".","s","m","i","l","e",".","c","o","m","/","c","o","n","t","a","c","t">>, title |-> title_other, snippet |-> snippet_other]>>,
                  <<[link |-> link_other, title |-> <<"S","m","i","l","e"," ","D","e","n","t","a","l"," ","-"," ","T","r","o","y">>, snippet |-> snippet_other]>> }
CseResponses ==
    {[kind |-> "raise", code |-> 0, body |-> None],
     [kind |-> "http", code |-> 403, body |-> None]}
    \cup {[kind |-> "http", code |-> 200, body |-> [t |-> "json", items |-> l]] : l \in CseItemLists}

\* an item names the clinic: its link is on the clinic's domain, or its title or snippet holds
\* the clinic's name
ItemHits(it, url, name) ==
    LET domain == IF url # <<>> THEN get_domain(url) ELSE <<>> IN
    \/ domain # <<>> /\ get_domain(it.link) = domain
    \/ name # <<>> /\ (Contains(Lower(name), Lower(it.title)) \/ Contains(Lower(name), Lower(it.snippet)))

\* ------------------------------------------------------------ state
VARIABLES
    app,             \* which variant of the app runs
    PLACES_API_KEY,  \* the listing-API key, None when not configured
    CSE_API_KEY,     \* the search-API key, None when not configured
    clinic_name, address, phone, website,   \* the submitted form
    pc,              \* where the run is
    soup, load_time, \* fetch_html's result
    queries, qi,     \* find_best_place_id: the candidate list and the loop index
    place_id,        \* find_best_place_id's result
    details,         \* places_details' result
    appears,         \* appears_on_page1_for_dentist_near_me's result
    top3_avg,        \* app.py: the competitive benchmark
    metrics,         \* the six sections' values, None until they are built
    args, ret,       \* compute_smile_score's arguments and what it returned
    calls,           \* the network requests sent so far, in order
    exception,       \* the exception that ended the run, "none" while there is none
    frozen           \* None while the network answers as it likes; else the answers it is
                     \* held to, and under "first" what the first of two runs produced

config == <<app, PLACES_API_KEY, CSE_API_KEY, clinic_name, address, phone, website>>
results == <<appears, top3_avg, metrics, args, ret>>
vars == <<app, PLACES_API_KEY, CSE_API_KEY, clinic_name, address, phone, website, pc, soup, load_time,
          queries, qi, place_id, details, appears, top3_avg, metrics, args, ret, calls, exception,
          frozen>>

\* ------------------------------------------------------------ network helpers
\* Each helper gives [ret, exc, sent]: its return value, whether it raised, and whether a
\* request left the process.

\* a fetch_html that keeps the page of an earlier run and serves it again
fetch_html_cached(url, resp) ==
    IF soup # None THEN [soup |-> soup, elapsed |-> load_time, exc |-> FALSE, sent |-> FALSE]
    ELSE IF url = <<>> THEN [soup |-> None, elapsed |-> None, exc |-> FALSE, sent |-> FALSE]
    ELSE IF resp.kind = "http" /\ resp.code = 200
         THEN [soup |-> resp.body, elapsed |-> IntV(resp.elapsed), exc |-> FALSE, sent |-> resp.sent]
         ELSE [soup |-> None, elapsed |-> None, exc |-> FALSE, sent |-> resp.sent]

\* fetch_html(url): (soup, elapsed) or (None, None); every failure is swallowed
fetch_html(url, resp) ==
    IF url = <<>> THEN [soup |-> None, elapsed |-> None, exc |-> FALSE, sent |-> FALSE]
    ELSE IF resp.kind = "http" /\ resp.code = 200
         THEN [soup |-> resp.body, elapsed |-> IntV(resp.elapsed), exc |-> FALSE, sent |-> resp.sent]
         ELSE [soup |-> None, elapsed |-> None, exc |-> FALSE, sent |-> resp.sent]

\* a wrong places_text_search, which sends the request whether or not the key is configured
places_text_search_unguarded(query, resp) ==
    IF resp.kind = "raise" THEN [ret |-> None, exc |-> TRUE, sent |-> TRUE]
    ELSE [ret |-> IF resp.code = 200 THEN resp.body ELSE None, exc |-> FALSE, sent |-> TRUE]

\* part_000: requests.get is not guarded, so what it raises leaves the helper
places_text_search(query, resp) ==
    IF ~Truthy(PLACES_API_KEY) THEN [ret |-> None, exc |-> FALSE, sent |-> FALSE]
    ELSE IF resp.kind = "raise" THEN [ret |-> None, exc |-> TRUE, sent |-> TRUE]
    ELSE [ret |-> IF resp.code = 200 THEN resp.body ELSE None, exc |-> FALSE, sent |-> TRUE]

places_find_place(text_query, resp) ==
    IF ~Truthy(PLACES_API_KEY) THEN [ret |-> None, exc |-> FALSE, sent |-> FALSE]
    ELSE IF resp.kind = "raise" THEN [ret |-> None, exc |-> TRUE, sent |-> TRUE]
    ELSE [ret |-> IF resp.code = 200 THEN resp.body ELSE None, exc |-> FALSE, sent |-> TRUE]

places_details(pid, resp) ==
    IF ~Truthy(PLACES_API_KEY) \/ ~Truthy(pid) THEN [ret |-> None, exc |-> FALSE, sent |-> FALSE]
    ELSE IF resp.kind = "raise" THEN [ret |-> None, exc |-> TRUE, sent |-> TRUE]
    ELSE [ret |-> IF resp.code = 200 THEN resp.body ELSE None, exc |-> FALSE, sent |-> TRUE]

\* app.py: the same requests inside try/except
places_text_search_app(query, resp) ==
    IF ~Truthy(PLACES_API_KEY) THEN [ret |-> None, exc |-> FALSE, sent |-> FALSE]
    ELSE [ret |-> IF resp.kind = "http" /\ resp.code = 200 THEN resp.body ELSE None,
          exc |-> FALSE, sent |-> TRUE]

places_details_app(pid, resp) ==
    IF ~Truthy(PLACES_API_KEY) \/ ~Truthy(pid) THEN [ret |-> None, exc |-> FALSE, sent |-> FALSE]
    ELSE [ret |-> IF resp.kind = "http" /\ resp.code = 200 THEN resp.body ELSE None,
          exc |-> FALSE, sent |-> TRUE]

\* ------------------------------------------------------------ find_best_place_id
\* a candidate list that holds every query twice in a row, so that each is sent again
build_queries_retried(name, addr, url) ==
    (IF name # <<>> /\ addr # <<>> THEN <<name \o <<" ">> \o addr, name \o <<" ">> \o addr>> ELSE <<>>)
    \o (IF name # <<>> THEN <<name, name>> ELSE <<>>)
    \o (IF url # <<>> /\ get_domain(url) # <<>> THEN <<get_domain(url), get_domain(url)>> ELSE <<>>)
\* the candidate queries: name + address, name, the website's domain
build_queries(name, addr, url) ==
    (IF name # <<>> /\ addr # <<>> THEN <<name \o <<" ">> \o addr>> ELSE <<>>)
    \o (IF name # <<>> THEN <<name>> ELSE <<>>)
    \o (IF url # <<>> /\ get_domain(url) # <<>> THEN <<get_domain(url)>> ELSE <<>>)

\* a text-search loop that takes no result for a match and always goes on
text_search_hit_never(js) == FALSE
\* part_000: js and js.get("status") == "OK" and js.get("results")
text_search_hit(js) == js.t = "json" /\ js.status = s_OK /\ JsGet(js, "results") # <<>>
\* part_000: js and js.get("status") == "OK" and js.get("candidates")
find_place_hit(js) == js.t = "json" /\ js.status = s_OK /\ JsGet(js, "candidates") # <<>>
\* app.py: status in ("OK", "ZERO_RESULTS") and a non-empty results list
text_search_hit_app(js) ==
    js.t = "json" /\ js.status \in {s_OK, s_ZERO_RESULTS} /\ JsGet(js, "results") # <<>>
\* a wrong pick, the last listed result instead of the first
top_place_id_last(list) == list[Len(list)].place_id
\* js["results"][0].get("place_id")
top_place_id(list) == list[1].place_id

\* the response a claim calls a success: HTTP 200, status OK, a non-empty list
Succeeded(resp) == resp.kind = "http" /\ resp.code = 200 /\ resp.body.status = s_OK /\ resp.body.list # <<>>
\* a request as the log keeps it: the endpoint, the function that sent it, the query, whether
\* the response was a success and, when it was, the first identifier it listed
Sent(api, fn, q, resp) ==
    [api |-> api, fn |-> fn, q |-> q, ok |-> Succeeded(resp),
     top |-> IF Succeeded(resp) THEN resp.body.list[1].place_id ELSE None]

\* ------------------------------------------------------------ the run's derived values
\* appears_on_page1_for_dentist_near_me(website, clinic_name, address): the label and whether a
\* request was sent. The search engine id CSE_CX is configured together with CSE_API_KEY.
appears_on_page1_for_dentist_near_me(url, name, addr, resp) ==
    IF ~Truthy(CSE_API_KEY) THEN [ret |-> SearchLimited, sent |-> FALSE]
    ELSE IF resp.kind = "raise" \/ resp.code # 200 THEN [ret |-> SearchLimited, sent |-> TRUE]
    ELSE IF \E i \in 1..Len(resp.body.items) : ItemHits(resp.body.items[i], url, name)
         THEN [ret |-> StrV(<<"Y","e","s"," ","(","P","a","g","e"," ","1",")">>), sent |-> TRUE]
         ELSE [ret |-> StrV(<<"N","o"," ","(","N","o","t"," ","o","n"," ","P","a","g","e"," ","1",")">>), sent |-> TRUE]

\* app.py: q = f"dentist in {city}" if city else "dentist"
competitive_query(addr) ==
    IF Truthy(city_of(addr)) THEN <<"d","e","n","t","i","s","t"," ","i","n"," ">> \o city_of(addr).v ELSE <<"d","e","n","t","i","s","t">>

\* app.py: round(sum(ratings)/len(ratings), 2) over the first three results that carry a
\* rating, in hundredths of a star; "Search limited" when there is none
top3_avg_of(js) ==
    IF js.t = "json" /\ js.status = s_OK
    THEN LET first3 == SubSeq(JsGet(js, "results"), 1, Min(3, Len(JsGet(js, "results"))))
             rated == SelectSeq(first3, LAMBDA r : r.rating.t # "None")
             ratings == [i \in 1..Len(rated) |-> rated[i].rating.v]
         IN  IF ratings # <<>>
             THEN [t |-> "float", v100 |-> (10 * Sum(ratings)) \div Len(ratings)]
             ELSE SearchLimited
    ELSE SearchLimited

\* x or "Search limited"
OrSearchLimited(x) == IF x # <<>> THEN StrV(x) ELSE SearchLimited

s_response_rate == <<"N","o","t"," ","a","v","a","i","l","a","b","l","e"," ","v","i","a"," ","P","l","a","c","e","s"," ","A","P","I"," ","(","G","B","P"," ","n","e","e","d","e","d",")">>

\* part_000: the values of the six sections
metrics_part_000 ==
    LET wh == website_health(website, soup, load_time)
        gbp == gbp_completeness(details)
        rr == rating_and_reviews(details)
        an == analyze_review_texts(rr.reviews)
    IN  [practice_name |-> OrSearchLimited(clinic_name),
         address |-> OrSearchLimited(address),
         phone |-> OrSearchLimited(phone),
         website |-> OrSearchLimited(website),
         years |-> years_in_operation_from_site(soup),
         specialties |-> specialties_from_site(soup),
         gbp_score |-> gbp.score, gbp_signals |-> gbp.checks,
         appears |-> appears,
         wh_str |-> wh.score, wh_checks |-> wh.checks,
         social_present |-> social_presence_from_site(soup),
         rating_str |-> rr.rating_str, review_count |-> rr.review_count,
         sentiment |-> an.sentiment, yelp |-> SearchLimited, top_pos |-> an.top_pos, top_neg |-> an.top_neg,
         response_rate |-> StrV(s_response_rate),
         site_media |-> IF Truthy(soup) THEN media_count_from_site(soup) ELSE SearchLimited,
         photos_count |-> IF Truthy(details) THEN photos_count_from_places(details) ELSE SearchLimited,
         site_ads |-> IF Truthy(soup) THEN advertising_signals(soup) ELSE SearchLimited,
         local_seo |-> SearchLimited, social_proof |-> SearchLimited,
         booking |-> appointment_booking_from_site(soup),
         hours |-> office_hours_from_places(details),
         insurance |-> insurance_from_site(soup),
         accessibility |-> SearchLimited,
         top3_avg |-> SearchLimited]

\* app.py: the values of the six sections
metrics_app ==
    LET wh == website_health(website, soup, load_time)
        gbp == IF Truthy(details) THEN gbp_completeness_estimate(details)
               ELSE [score |-> SearchLimited, checks |-> SearchLimited]
        sp == social_presence_from_site_app(soup)
        er == IF Truthy(details) THEN extract_reviews_from_places(details)
              ELSE [reviews |-> <<>>, rating |-> None, total |-> None]
        an == analyze_review_texts(er.reviews)
    IN  [practice_name |-> OrSearchLimited(clinic_name),
         address |-> OrSearchLimited(address),
         phone |-> OrSearchLimited(phone),
         website |-> OrSearchLimited(website),
         years |-> years_in_operation_from_site(soup),
         specialties |-> specialties_from_site(soup),
         gbp_score |-> gbp.score, gbp_signals |-> gbp.checks,
         appears |-> appears,
         wh_str |-> wh.score, wh_checks |-> wh.checks,
         social_present |-> sp.present, social_details |-> sp.details,
         rating_str |-> IF IsNumber(er.rating) THEN StrV(Float1(er.rating.v) \o <<"/","5">>) ELSE SearchLimited,
         review_count |-> IF er.total.t = "int" THEN er.total ELSE SearchLimited,
         sentiment |-> an.sentiment, yelp |-> SearchLimited, top_pos |-> an.top_pos, top_neg |-> an.top_neg,
         response_rate |-> StrV(s_response_rate),
         site_media |-> media_count_from_site(soup),
         photos_count |-> IF Truthy(details) THEN photos_count_from_places(details) ELSE SearchLimited,
         site_ads |-> advertising_signals(soup),
         local_seo |-> SearchLimited, social_proof |-> SearchLimited,
         booking |-> appointment_booking_from_site(soup),
         hours |-> office_hours_from_places_app(details),
         insurance |-> insurance_from_site(soup),
         accessibility |-> accessibility_from_places(details),
         top3_avg |-> top3_avg]

\* the arguments the run passes to compute_smile_score
score_args(m) ==
    [wh_pct |-> to_pct_from_score_str(m.wh_str),
     social_present |-> m.social_present,
     rating |-> rating_val_of(m.rating_str),
     reviews_total |-> IF IsNumber(m.review_count) THEN m.review_count ELSE None,
     booking |-> m.booking,
     hours_present |-> m.hours.t = "str" /\ m.hours # SearchLimited,
     insurance_clear |-> m.insurance.t = "str" /\ m.insurance \notin {SearchLimited, StrV(s_Unclear)},
     accessibility_present |-> IF app = "app"
                               THEN m.accessibility.t = "str" /\ m.accessibility # SearchLimited
                               ELSE FALSE]

\* ------------------------------------------------------------ the audit run
Init ==
    /\ app \in Apps
    /\ PLACES_API_KEY \in Keys
    /\ CSE_API_KEY \in Keys
    /\ \E form \in Forms :
         /\ clinic_name = form.clinic_name /\ address = form.address
         /\ phone = form.phone /\ website = form.website
    /\ pc = "start"
    /\ soup = None /\ load_time = None
    /\ queries = <<>> /\ qi = 1
    /\ place_id = None /\ details = None
    /\ appears = None /\ top3_avg = None
    /\ metrics = None /\ args = None /\ ret = None
    /\ calls = <<>>
    /\ exception = "none"
    /\ frozen = None

\* an exception nobody catches ends the script run
Raise(sent) ==
    /\ pc' = "crashed"
    /\ exception' = "RequestException"
    /\ calls' = Append(calls, sent)

\* soup, load_time = fetch_html(website)
FetchHtml ==
    /\ pc = "start"
    /\ \E resp \in {r \in PageResponses(website) : frozen = None \/ r = frozen.page} :
         LET r == fetch_html(website, resp) IN
         /\ soup' = r.soup
         /\ load_time' = r.elapsed
         /\ calls' = IF r.sent
                     THEN Append(calls, [api |-> "page", fn |-> "fetch_html", q |-> website,
                                         ok |-> resp.code = 200, top |-> None])
                     ELSE calls
    /\ pc' = "resolve"
    /\ UNCHANGED <<config, frozen, queries, qi, place_id, details, results, exception>>

\* find_best_place_id: the candidate list is built, the text-search loop starts
BeginResolve ==
    /\ pc = "resolve"
    /\ queries' = build_queries(clinic_name, address, website)
    /\ qi' = 1
    /\ IF queries' = <<>>
       THEN place_id' = None /\ pc' = "details"
       ELSE place_id' = place_id /\ pc' = "text_search"
    /\ UNCHANGED <<config, frozen, soup, load_time, details, results, calls, exception>>

\* one pass of "for q in queries: js = places_text_search(q) ..."
TextSearch ==
    /\ pc = "text_search"
    /\ \E resp \in {r \in SearchResponses("results") : frozen = None \/ r = frozen.results} :
         LET q == queries[qi]
             r == IF app = "app" THEN places_text_search_app(q, resp) ELSE places_text_search(q, resp)
             hit == IF app = "app" THEN text_search_hit_app(r.ret) ELSE text_search_hit(r.ret)
         IN  IF r.exc
             THEN Raise(Sent("textsearch", "find_best_place_id", q, resp)) /\ UNCHANGED <<qi, place_id>>
             ELSE /\ calls' = IF r.sent THEN Append(calls, Sent("textsearch", "find_best_place_id", q, resp)) ELSE calls
                  /\ exception' = exception
                  /\ IF hit
                     THEN place_id' = top_place_id(JsGet(r.ret, "results")) /\ pc' = "details" /\ qi' = qi
                     ELSE IF qi < Len(queries)
                     THEN place_id' = place_id /\ pc' = "text_search" /\ qi' = qi + 1
                     ELSE IF app = "app"
                     THEN place_id' = None /\ pc' = "details" /\ qi' = qi
                     ELSE place_id' = place_id /\ pc' = "find_place" /\ qi' = 1
    /\ UNCHANGED <<config, frozen, soup, load_time, queries, details, results>>

\* one pass of "for q in queries: js = places_find_place(q) ..." (part_000 only)
FindPlace ==
    /\ pc = "find_place"
    /\ \E resp \in {r \in SearchResponses("candidates") : frozen = None \/ r = frozen.candidates} :
         LET q == queries[qi]
             r == places_find_place(q, resp)
         IN  IF r.exc
             THEN Raise(Sent("findplace", "find_best_place_id", q, resp)) /\ UNCHANGED <<qi, place_id>>
             ELSE /\ calls' = IF r.sent THEN Append(calls, Sent("findplace", "find_best_place_id", q, resp)) ELSE calls
                  /\ exception' = exception
                  /\ IF find_place_hit(r.ret)
                     THEN place_id' = top_place_id(JsGet(r.ret, "candidates")) /\ pc' = "details" /\ qi' = qi
                     ELSE IF qi < Len(queries)
                     THEN place_id' = place_id /\ pc' = "find_place" /\ qi' = qi + 1
                     ELSE place_id' = None /\ pc' = "details" /\ qi' = qi
    /\ UNCHANGED <<config, frozen, soup, load_time, queries, details, results>>

\* details = places_details(place_id) if place_id else None
PlacesDetails ==
    /\ pc = "details"
    /\ \E resp \in {r \in DetailsResponses : frozen = None \/ r = frozen.details} :
         LET r == IF ~Truthy(place_id) THEN [ret |-> None, exc |-> FALSE, sent |-> FALSE]
                  ELSE IF app = "app" THEN places_details_app(place_id, resp)
                  ELSE places_details(place_id, resp)
             sent == [api |-> "details", fn |-> "places_details", q |-> place_id.v,
                      ok |-> resp.code = 200 /\ resp.body.status = s_OK, top |-> None]
         IN  IF r.exc
             THEN Raise(sent) /\ details' = details
             ELSE /\ details' = r.ret
                  /\ calls' = IF r.sent THEN Append(calls, sent) ELSE calls
                  /\ exception' = exception
                  /\ pc' = "web_search"
    /\ UNCHANGED <<config, frozen, soup, load_time, queries, qi, place_id, results>>

\* appears = appears_on_page1_for_dentist_near_me(website, clinic_name, address)
WebSearch ==
    /\ pc = "web_search"
    /\ \E resp \in {r \in CseResponses : frozen = None \/ r = frozen.items} :
         LET r == appears_on_page1_for_dentist_near_me(website, clinic_name, address, resp) IN
         /\ appears' = r.ret
         /\ calls' = IF r.sent
                     THEN Append(calls, [api |-> "customsearch", fn |-> "appears_on_page1_for_dentist_near_me",
                                         q |-> cse_query(clinic_name, address),
                                         ok |-> resp.kind = "http" /\ resp.code = 200, top |-> None])
                     ELSE calls
    /\ pc' = IF app = "app" THEN "competitive" ELSE "sections"
    /\ UNCHANGED <<config, frozen, soup, load_time, queries, qi, place_id, details, top3_avg, metrics,
                   args, ret, exception>>

\* app.py, section 6: the average rating of the first three results of "dentist in <city>"
Competitive ==
    /\ pc = "competitive"
    /\ \E resp \in {r \in SearchResponses("results") : frozen = None \/ r = frozen.benchmark} :
         LET q == competitive_query(address)
             r == places_text_search_app(q, resp)
         IN  IF address # <<>> /\ Truthy(PLACES_API_KEY)
             THEN /\ top3_avg' = top3_avg_of(r.ret)
                  /\ calls' = Append(calls, [api |-> "textsearch", fn |-> "run", q |-> q,
                                              ok |-> Succeeded(resp), top |-> None])
             ELSE /\ top3_avg' = SearchLimited
                  /\ calls' = calls
    /\ pc' = "sections"
    /\ UNCHANGED <<config, frozen, soup, load_time, queries, qi, place_id, details, appears, metrics,
                   args, ret, exception>>

\* the six section dictionaries are built from the page, the detail record and the search
Sections ==
    /\ pc = "sections"
    /\ metrics' = IF app = "app" THEN metrics_app ELSE metrics_part_000
    /\ top3_avg' = IF app = "app" THEN top3_avg ELSE SearchLimited
    /\ pc' = "scoring"
    /\ UNCHANGED <<config, frozen, soup, load_time, queries, qi, place_id, details, appears,
                   args, ret, calls, exception>>

\* smile, vis_score, rep_score, exp_score = compute_smile_score(...)
Scoring ==
    /\ pc = "scoring"
    /\ args' = score_args(metrics)
    /\ ret' \in compute_smile_score(args')
    /\ pc' = "done"
    /\ UNCHANGED <<config, frozen, soup, load_time, queries, qi, place_id, details, appears, top3_avg,
                   metrics, calls, exception>>

Next ==
    \/ FetchHtml \/ BeginResolve \/ TextSearch \/ FindPlace \/ PlacesDetails
    \/ WebSearch \/ Competitive \/ Sections \/ Scoring

Spec == Init /\ [][Next]_vars

\* ------------------------------------------------------------ the audit run, twice
\* "Run Audit" is pressed a second time with the same form, and every request gets the answer
\* it got the first time. The answers are fixed when the form is submitted; one answer per
\* kind of request.
InitTwice ==
    /\ app \in Apps
    /\ PLACES_API_KEY \in Keys
    /\ CSE_API_KEY \in Keys
    /\ \E form \in {f \in Forms : f.clinic_name # <<>> /\ f.website # <<>>} :
         /\ clinic_name = form.clinic_name /\ address = form.address
         /\ phone = form.phone /\ website = form.website
    /\ pc = "start"
    /\ soup = None /\ load_time = None
    /\ queries = <<>> /\ qi = 1
    /\ place_id = None /\ details = None
    /\ appears = None /\ top3_avg = None
    /\ metrics = None /\ args = None /\ ret = None
    /\ calls = <<>>
    /\ exception = "none"
    /\ frozen \in [page : {r \in PageResponses(website) : r.code = 404 \/ r.body = doc_rich},
                   results : {r \in SearchResponses("results") :
                                 r.code = 500 \/ (r.code = 200 /\ Len(r.body.list) = 1)},
                   candidates : {r \in SearchResponses("candidates") :
                                    r.code = 200 /\ r.body.status = s_OK /\ Len(r.body.list) < 2
                                    /\ r.body.list # <<ResultOf(StrV(<<"A">>))>>},
                   details : {r \in DetailsResponses :
                                 r.code = 500 \/ (r.code = 200 /\ r.body.result \in {res_full, res_mid})},
                   items : {r \in CseResponses : r.code = 403 \/ (r.code = 200 /\ Len(r.body.items) = 0)},
                   benchmark : {r \in SearchResponses("results") :
                                   r.code = 500 \/ (r.code = 200 /\ r.body.list = <<ResultOf(StrV(<<"A">>))>>)},
                   first : {None}]

\* The script runs again from its first line. What an earlier run left in the process is
\* still there when it starts: the values of the first run, or those of a run for another
\* clinic.
Rerun ==
    /\ pc = "done" /\ frozen # None /\ frozen.first = None
    /\ frozen' = [frozen EXCEPT !.first = [soup |-> soup, load_time |-> load_time, place_id |-> place_id,
                                            details |-> details, appears |-> appears,
                                            top3_avg |-> top3_avg, metrics |-> metrics,
                                            args |-> args, ret |-> ret, calls |-> calls]]
    /\ pc' = "start"
    /\ calls' = <<>>
    /\ \/ UNCHANGED <<soup, load_time, place_id, details, appears, top3_avg>>
       \/ /\ soup' = doc_mid /\ load_time' = IntV(350)
          /\ place_id' = StrV(<<"Z">>)
          /\ details' = [t |-> "json", status |-> s_OK, result |-> res_bare]
          /\ appears' = StrV(<<"Y","e","s"," ","(","P","a","g","e"," ","1",")">>)
          /\ top3_avg' = [t |-> "float", v |-> 31]
    /\ UNCHANGED <<config, queries, qi, metrics, args, ret, exception>>

SpecTwice == InitTwice /\ [][Next \/ Rerun]_vars

\* ------------------------------------------------------------ compute_smile_score on its own
\* The aggregator is a pure function: here it is applied to arguments drawn from the values
\* its callers can pass, beyond the ones the modelled pages and listings produce.
\* None or one of the integers ns
OptInts(ns) == {None} \cup {IntV(n) : n \in ns}
ScoreArgs ==
    [wh_pct : OptInts({0, 16, 33, 34, 50, 67, 100}),
     social_present : {SearchLimited, StrV(s_None), StrV(s_Facebook), StrV(s_Instagram),
                       StrV(s_Facebook_Instagram)},
     rating : {None} \cup {[t |-> "float", v |-> r] : r \in {0, 31, 45, 48, 50}},
     reviews_total : OptInts({0, 124, 499, 600}),
     booking : {SearchLimited, StrV(s_booking_embedded), StrV(s_booking_link), StrV(s_phone_only)},
     hours_present : BOOLEAN, insurance_clear : BOOLEAN, accessibility_present : BOOLEAN]

\* app_Basic.py: the subscores its run passes (the reputation ones are always None there) and
\* the numbers a caller with review data would pass
ScoreArgs_Basic ==
    [wh : OptInts({0, 67, 100}), sp : OptInts({0, 60, 100}),
     rating_pct : OptInts({96}), volume_pct : OptInts({100}), sentiment_pct : {None}, response_pct : {None},
     booking_pct : OptInts({40, 80}), hours_pct : {None}, insurance_pct : OptInts({80}),
     accessibility_pct : {None}]

InitScore ==
    /\ app \in {"part_000", "app", "app_Basic"}
    /\ args \in (IF app = "app_Basic" THEN ScoreArgs_Basic ELSE ScoreArgs)
    /\ ret = None
    /\ pc = "call"
    /\ PLACES_API_KEY = None /\ CSE_API_KEY = None
    /\ clinic_name = <<>> /\ address = <<>> /\ phone = <<>> /\ website = <<>>
    /\ soup = None /\ load_time = None
    /\ queries = <<>> /\ qi = 1
    /\ place_id = None /\ details = None
    /\ appears = None /\ top3_avg = None /\ metrics = None
    /\ calls = <<>>
    /\ exception = "none"
    /\ frozen = None

\* part_000, app.py: compute_smile_score(wh_pct, social_present, rating, reviews_total, ...)
ComputeSmileScore ==
    /\ pc = "call" /\ app # "app_Basic"
    /\ ret' \in compute_smile_score(args)
    /\ pc' = "return"
    /\ UNCHANGED <<config, frozen, soup, load_time, queries, qi, place_id, details, appears, top3_avg,
                   metrics, args, calls, exception>>

\* app_Basic.py: compute_smile_score(visibility_subscores, reputation_subscores, experience_subscores)
ComputeSmileScore_Basic ==
    /\ pc = "call" /\ app = "app_Basic"
    /\ ret' \in compute_smile_score_Basic(args)
    /\ pc' = "return"
    /\ UNCHANGED <<config, frozen, soup, load_time, queries, qi, place_id, details, appears, top3_avg,
                   metrics, args, calls, exception>>

SpecScore == InitScore /\ [][ComputeSmileScore \/ ComputeSmileScore_Basic]_vars

\* ------------------------------------------------------------ functions on their own
\* website_health, advise and analyze_review_texts are pure functions: here each is applied to
\* arguments drawn from bounded sets, every combination of them. website_health gets the URL,
\* the document and the elapsed time (the thresholds of 2 s and 5 s included); advise gets
\* each metric name of the report with values the run can show and values that carry an error
\* marker; analyze_review_texts gets up to two reviews: without a theme word, with more than
\* three themes of one kind, with as many positive hits as negative ones, with a keyword
\* that overlaps its own next occurrence. The two page extractors get pages whose text has
\* a founding phrase, years without one, an insurance sentence, a mention without a sentence,
\* none of these, and the absent page.
InitExtract ==
    /\ app \in {"part_000", "app", "app_Basic"}
    /\ pc \in (IF app = "app_Basic" THEN {"years_call"}
               ELSE {"wh_call", "reviews_call", "years_call", "insurance_call"}
                    \cup (IF app = "part_000" THEN {"advise_call"} ELSE {}))
    /\ website \in (IF pc # "wh_call" THEN {<<>>}
                    ELSE {<<>>, url_https_www, url_http, <<"s","m","i","l","e",".","c","o","m">>,
                          <<"H","T","T","P","S",":","/","/","S","m","i","l","e",".","c","o","m">>})
    /\ soup \in (IF pc = "wh_call" THEN {None, doc_rich, doc_mid, doc_poor}
                 ELSE IF pc = "years_call"
                 THEN {None,
                        [doc_poor EXCEPT !.text = <<"F","o","u","n","d","e","d"," ","1","9","9","8","."," ","W","e"," ","a","c","c","e","p","t"," ","D","e","l","t","a"," ","D","e","n","t","a","l"," ","i","n","s","u","r","a","n","c","e",".">>],
                        [doc_poor EXCEPT !.text = <<"S","e","r","v","i","n","g"," ","s","m","i","l","e","s"," ","s","i","n","c","e"," ","2","0","0","5",";"," ","r","e","m","o","d","e","l","e","d"," ","i","n"," ","1","9","9","9",".">>],
                        [doc_poor EXCEPT !.text = <<"O","p","e","n"," ","s","i","n","c","e"," ","t","h","e"," ","1","8","5","0"," ","f","i","r","e","."," ","E","S","T","A","B","L","I","S","H","E","D",":"," ","2","0","1","0">>],
                        [doc_poor EXCEPT !.text = <<"C","o","p","y","r","i","g","h","t"," ","2","0","2","1"," ","S","m","i","l","e","."," ","A","w","a","r","d","s"," ","2","0","1","9",","," ","1","9","8","7",".">>],
                        [doc_poor EXCEPT !.text = <<"C","o","p","y","r","i","g","h","t"," ","2","0","2","1"," ","S","m","i","l","e"," ","2","0","2","3">>],
                        [doc_poor EXCEPT !.text = <<"F","a","m","i","l","y"," ","d","e","n","t","i","s","t","."," ","C","a","l","l"," ","u","s",".">>]}
                 ELSE IF pc = "insurance_call"
                 THEN {None,
                        [doc_poor EXCEPT !.text = <<"W","e"," ","a","c","c","e","p","t"," ","D","e","l","t","a"," ","D","e","n","t","a","l"," ","i","n","s","u","r","a","n","c","e","."," ","C","a","l","l"," ","t","o","d","a","y",".">>],
                        [doc_poor EXCEPT !.text = <<"O","p","e","n"," ","d","a","i","l","y","."," ","W","e"," ","t","a","k","e"," ","m","o","s","t"," ","I","n","s","u","r","a","n","c","e"," ","p","l","a","n","s","."," ","C","a","l","l"," ","u","s",".">>],
                        [doc_poor EXCEPT !.text = <<"I","n","s","u","r","a","n","c","e"," ","a","c","c","e","p","t","e","d">>],
                        [doc_poor EXCEPT !.text = <<"P","P","O"," ","p","l","a","n","s"," ","w","e","l","c","o","m","e",".">>],
                        [doc_poor EXCEPT !.text = <<"F","a","m","i","l","y"," ","d","e","n","t","i","s","t","."," ","C","a","l","l"," ","u","s",".">>]}
                 ELSE {None})
    /\ load_time \in (IF pc # "wh_call" THEN {None}
                      ELSE OptInts({0, 150, 199, 200, 350, 499, 500, 620}))
    /\ args \in (IF pc \in {"wh_call", "years_call", "insurance_call"} THEN {None}
                 ELSE IF pc = "reviews_call"
                 THEN [reviews : SeqsUpTo({[text |-> review_1], [text |-> review_2],
                                 [text |-> <<"S","p","o","t","l","e","s","s","p","o","t","l","e","s","s"," ","a","n","d"," ","t","r","a","n","s","p","a","r","e","n","t","r","a","n","s","p","a","r","e","n","t",".">>],
                                 [text |-> <<"G","r","e","a","t"," ","d","e","n","t","i","s","t",","," ","w","o","u","l","d"," ","c","o","m","e"," ","a","g","a","i","n",".">>],
                                 [text |-> <<"F","r","i","e","n","d","l","y"," ","a","n","d"," ","C","L","E","A","N"," ","o","f","f","i","c","e","."," ","G","e","n","t","l","e",","," ","p","r","o","f","e","s","s","i","o","n","a","l",","," ","a","n","d"," ","t","h","e","y"," ","e","x","p","l","a","i","n","e","d"," ","e","v","e","r","y","t","h","i","n","g",".">>],
                                 [text |-> <<"R","u","d","e"," ","r","e","c","e","p","t","i","o","n",","," ","b","i","l","l","i","n","g"," ","e","r","r","o","r","s",","," ","a"," ","l","o","n","g"," ","w","a","i","t",","," ","i","t"," ","h","u","r","t"," ","a","n","d"," ","t","h","e","y"," ","w","e","r","e"," ","p","u","s","h","y",".">>],
                                 [text |-> <<"F","r","i","e","n","d","l","y"," ","b","u","t"," ","l","a","t","e",".">>],
                                 [text |-> <<"T","h","e"," ","c","h","a","i","r"," ","w","a","s"," ","u","n","c","o","m","f","o","r","t","a","b","l","e",".">>],
                                 [text |-> <<"W","a","i","t","i","n","g",","," ","w","a","i","t","i","n","g",","," ","a","n","d"," ","m","o","r","e"," ","w","a","i","t","i","n","g",".">>]}, 2)]
                 ELSE [metric : {<<"P","r","a","c","t","i","c","e"," ","N","a","m","e">>, <<"A","d","d","r","e","s","s">>,
                    <<"P","h","o","n","e">>, <<"W","e","b","s","i","t","e">>,
                    <<"Y","e","a","r","s"," ","i","n"," ","O","p","e","r","a","t","i","o","n">>,
                    <<"S","p","e","c","i","a","l","t","i","e","s"," ","H","i","g","h","l","i","g","h","t","e","d">>,
                    <<"G","B","P"," ","C","o","m","p","l","e","t","e","n","e","s","s"," ","(","e","s","t","i","m","a","t","e",")">>,
                    <<"G","B","P"," ","S","i","g","n","a","l","s">>,
                    <<"S","e","a","r","c","h"," ","V","i","s","i","b","i","l","i","t","y"," ","(","P","a","g","e"," ","1","?",")">>,
                    <<"W","e","b","s","i","t","e"," ","H","e","a","l","t","h"," ","S","c","o","r","e">>,
                    <<"W","e","b","s","i","t","e"," ","H","e","a","l","t","h"," ","C","h","e","c","k","s">>,
                    <<"S","o","c","i","a","l"," ","M","e","d","i","a"," ","P","r","e","s","e","n","c","e">>,
                    <<"G","o","o","g","l","e"," ","R","e","v","i","e","w","s"," ","(","A","v","g",")">>,
                    <<"T","o","t","a","l"," ","G","o","o","g","l","e"," ","R","e","v","i","e","w","s">>,
                    <<"S","e","n","t","i","m","e","n","t"," ","H","i","g","h","l","i","g","h","t","s">>,
                    <<"Y","e","l","p"," ","/"," ","H","e","a","l","t","h","g","r","a","d","e","s"," ","/"," ","Z","o","c","d","o","c">>,
                    <<"T","o","p"," ","P","o","s","i","t","i","v","e"," ","T","h","e","m","e","s">>,
                    <<"T","o","p"," ","N","e","g","a","t","i","v","e"," ","T","h","e","m","e","s">>,
                    <<"R","e","v","i","e","w"," ","R","e","s","p","o","n","s","e"," ","R","a","t","e">>,
                    <<"P","h","o","t","o","s","/","V","i","d","e","o","s"," ","o","n"," ","W","e","b","s","i","t","e">>,
                    <<"P","h","o","t","o","s"," ","c","o","u","n","t"," ","i","n"," ","G","o","o","g","l","e">>,
                    <<"A","d","v","e","r","t","i","s","i","n","g"," ","S","c","r","i","p","t","s"," ","D","e","t","e","c","t","e","d">>,
                    <<"L","o","c","a","l"," ","S","E","O"," ","(","N","A","P"," ","c","o","n","s","i","s","t","e","n","c","y",")">>,
                    <<"S","o","c","i","a","l"," ","P","r","o","o","f"," ","(","m","e","d","i","a","/","m","e","n","t","i","o","n","s",")">>,
                    <<"A","p","p","o","i","n","t","m","e","n","t"," ","B","o","o","k","i","n","g">>,
                    <<"O","f","f","i","c","e"," ","H","o","u","r","s">>,
                    <<"I","n","s","u","r","a","n","c","e"," ","A","c","c","e","p","t","a","n","c","e">>,
                    <<"A","c","c","e","s","s","i","b","i","l","i","t","y"," ","S","i","g","n","a","l","s">>,
                    <<"A","v","g"," ","R","a","t","i","n","g"," ","o","f"," ","T","o","p"," ","3"," ","N","e","a","r","b","y">>},
                       value : OptInts({0, 3, 10, 99, 100, 299, 300, 600}) \cup {[t |-> "float", v |-> 45]} \cup
              {StrV(<<"S","e","a","r","c","h"," ","l","i","m","i","t","e","d">>),
               StrV(<<" "," ","S","E","A","R","C","H"," ","L","I","M","I","T","E","D"," ">>),
               StrV(<<"N","o","t"," ","a","v","a","i","l","a","b","l","e"," ","v","i","a"," ","P","l","a","c","e","s"," ","A","P","I"," ","(","G","B","P"," ","n","e","e","d","e","d",")">>),
               StrV(<<"R","E","Q","U","E","S","T","_","D","E","N","I","E","D">>), StrV(<<"P","l","a","c","e","s",":"," ","R","E","Q","U","E","S","T","_","D","E","N","I","E","D">>),
               StrV(<<"I","n","v","a","l","i","d"," ","r","e","q","u","e","s","t",".">>),
               StrV(<<"P","e","r","m","i","s","s","i","o","n"," ","d","e","n","i","e","d">>),
               StrV(<<"Z","E","R","O","_","R","E","S","U","L","T","S">>), StrV(<<"3","4","/","1","0","0">>),
               StrV(<<"9","0","/","1","0","0">>), StrV(<<"1","0","0","/","1","0","0">>),
               StrV(<<"Y","e","s"," ","(","P","a","g","e"," ","1",")">>),
               StrV(<<"N","o"," ","(","N","o","t"," ","o","n"," ","P","a","g","e"," ","1",")">>),
               StrV(<<"N","o","n","e">>), StrV(<<"F","a","c","e","b","o","o","k">>),
               StrV(<<"F","a","c","e","b","o","o","k",","," ","I","n","s","t","a","g","r","a","m">>),
               StrV(<<"4",".","8","/","5">>), StrV(<<"4",".","5","/","5">>), StrV(<<"3",".","9","/","5">>),
               StrV(<<"4",".","6","/","5">>), StrV(<<"4",".","0","/","5">>),
               StrV(<<"3",".","1","/","5">>), StrV(<<"5","/","5">>),
               StrV(<<"O","n","l","i","n","e"," ","b","o","o","k","i","n","g"," ","(","e","m","b","e","d","d","e","d",")">>),
               StrV(<<"P","h","o","n","e","-","o","n","l","y"," ","o","r"," ","u","n","c","l","e","a","r">>),
               StrV(<<"U","n","c","l","e","a","r">>),
               StrV(<<"M","e","n","t","i","o","n","e","d"," ","o","n"," ","s","i","t","e">>),
               StrV(<<"M","o","s","t","l","y"," ","p","o","s","i","t","i","v","e"," ","m","e","n","t","i","o","n","s"," ","(","2"," ","v","s"," ","2",")">>),
               StrV(<<"M","i","x","e","d","/","n","e","u","t","r","a","l"," ","(","f","e","w"," ","o","b","v","i","o","u","s"," ","t","h","e","m","e","s",")">>),
               StrV(<<"N","o","n","e"," ","d","e","t","e","c","t","e","d">>),
               StrV(<<"l","o","n","g"," ","w","a","i","t"," ","(","2",")",";"," ","b","i","l","l","i","n","g"," ","i","s","s","u","e","s"," ","(","1",")">>),
               StrV(<<"f","r","i","e","n","d","l","y"," ","s","t","a","f","f"," ","(","1",")">>),
               StrV(<<"1","0"," ","p","h","o","t","o","s",","," ","2"," ","v","i","d","e","o","s">>),
               StrV(<<"3"," ","p","h","o","t","o","s",","," ","1"," ","v","i","d","e","o","s">>),
               StrV(<<"0"," ","p","h","o","t","o","s",","," ","0"," ","v","i","d","e","o","s">>),
               StrV(<<"G","o","o","g","l","e"," ","t","a","g">>),
               StrV(<<"M","o","n",":"," ","9","-","5",";"," ","T","u","e",":"," ","9","-","7">>),
               StrV(<<"2","9","9">>), StrV(<<>>)}])
    /\ ret = None
    /\ PLACES_API_KEY = None /\ CSE_API_KEY = None
    /\ clinic_name = <<>> /\ address = <<>> /\ phone = <<>>
    /\ queries = <<>> /\ qi = 1
    /\ place_id = None /\ details = None
    /\ appears = None /\ top3_avg = None /\ metrics = None
    /\ calls = <<>>
    /\ exception = "none"
    /\ frozen = None

\* wh_str, wh_checks = website_health(website, soup, load_time)
WebsiteHealth ==
    /\ pc = "wh_call"
    /\ ret' = website_health(website, soup, load_time)
    /\ pc' = "wh_return"
    /\ UNCHANGED <<config, frozen, soup, load_time, queries, qi, place_id, details, appears, top3_avg,
                   metrics, args, calls, exception>>

\* part_000 section_df: advise(k, v) for a row of a section
Advise ==
    /\ pc = "advise_call"
    /\ ret' = StrV(advise(args.metric, args.value))
    /\ pc' = "advise_return"
    /\ UNCHANGED <<config, frozen, soup, load_time, queries, qi, place_id, details, appears, top3_avg,
                   metrics, args, calls, exception>>

\* sentiment, top_pos, top_neg = analyze_review_texts(reviews)
AnalyzeReviewTexts ==
    /\ pc = "reviews_call"
    /\ ret' = analyze_review_texts(args.reviews)
    /\ pc' = "reviews_return"
    /\ UNCHANGED <<config, frozen, soup, load_time, queries, qi, place_id, details, appears, top3_avg,
                   metrics, args, calls, exception>>

\* years_in_operation_from_site(soup); app_Basic.py: years_in_operation(soup)
YearsInOperation ==
    /\ pc = "years_call"
    /\ ret' = IF app = "app_Basic" THEN years_in_operation(soup) ELSE years_in_operation_from_site(soup)
    /\ pc' = "years_return"
    /\ UNCHANGED <<config, frozen, soup, load_time, queries, qi, place_id, details, appears, top3_avg,
                   metrics, args, calls, exception>>

\* insurance_from_site(soup)
InsuranceFromSite ==
    /\ pc = "insurance_call"
    /\ ret' = insurance_from_site(soup)
    /\ pc' = "insurance_return"
    /\ UNCHANGED <<config, frozen, soup, load_time, queries, qi, place_id, details, appears, top3_avg,
                   metrics, args, calls, exception>>

SpecExtract ==
    InitExtract /\ [][WebsiteHealth \/ Advise \/ AnalyzeReviewTexts \/ YearsInOperation \/ InsuranceFromSite]_vars

\* ------------------------------------------------------------ properties of the resolver
\* the requests find_best_place_id sent to one endpoint, in the order it sent them
ResolverCalls(api) == SelectSeq(calls, LAMBDA c : c.fn = "find_best_place_id" /\ c.api = api)

\* the place of a query in the fixed candidate order, 0 for a query that is no candidate
CandidateRank(q) ==
    IF clinic_name # <<>> /\ address # <<>> /\ q = clinic_name \o <<" ">> \o address THEN 1
    ELSE IF clinic_name # <<>> /\ q = clinic_name THEN 2
    ELSE IF website # <<>> /\ q # <<>> /\ q = get_domain(website) THEN 3
    ELSE 0

\* the ranks of the candidates the submitted form gives
CandidateRanks ==
    (IF clinic_name # <<>> /\ address # <<>> THEN {1} ELSE {})
    \cup (IF clinic_name # <<>> THEN {2} ELSE {})
    \cup (IF website # <<>> /\ get_domain(website) # <<>> THEN {3} ELSE {})

\* the requests cs follow the candidate order: candidates only, each after all the candidates
\* before it, none of them skipped
InCandidateOrder(cs) ==
    /\ \A i \in 1..Len(cs) : CandidateRank(cs[i].q) \in CandidateRanks
    /\ \A i \in 1..Len(cs) : \A j \in 1..Len(cs) :
          i < j => CandidateRank(cs[i].q) < CandidateRank(cs[j].q)
    /\ \A i \in 1..Len(cs) : \A r \in CandidateRanks :
          r < CandidateRank(cs[i].q) => \E j \in 1..(i - 1) : CandidateRank(cs[j].q) = r

\* find_best_place_id is in one of its two loops
ResolverLooping == pc \in {"text_search", "find_place"}

\* find_best_place_id has returned and nothing has raised since
ResolveReturned == pc \in {"details", "web_search", "competitive", "sections", "scoring", "done"}

\* C1: the text searches of find_best_place_id follow the candidate order (name+address, name,
\* domain); a text search that succeeds with a non-empty list is the last request the
\* resolver sends, no fallback lookup follows it, and the identifier returned is the first
\* one of its list; the resolver does not return before a text search succeeded or every
\* candidate was searched.
C1_CandidateOrderFirstMatch ==
    LET ts == ResolverCalls("textsearch") IN
    /\ InCandidateOrder(ts)
    /\ \A i \in 1..Len(ts) :
          ts[i].ok => /\ i = Len(ts)
                      /\ ResolverCalls("findplace") = <<>>
                      /\ ~ResolverLooping
                      /\ place_id = ts[i].top
    /\ (ResolveReturned /\ Truthy(PLACES_API_KEY))
          => (\E i \in 1..Len(ts) : ts[i].ok) \/ Len(ts) = Cardinality(CandidateRanks)

\* the name+address text search succeeded: it is the only request of the resolver and the
\* run went on to its end with the second identifier listed first
C1_Witness ==
    LET ts == ResolverCalls("textsearch") IN
    /\ pc = "done" /\ Cardinality(CandidateRanks) = 3
    /\ Len(ts) = 1 /\ ts[1].ok /\ CandidateRank(ts[1].q) = 1
    /\ place_id = StrV(<<"B">>)

\* C2: a fallback lookup is sent only after every candidate's text search failed; the
\* fallback lookups follow the candidate order; the first one that succeeds with a non-empty
\* list ends the pass and gives the identifier returned; and when no text search succeeds
\* the fallback pass does run.
C2_FallbackPass ==
    LET ts == ResolverCalls("textsearch")
        fp == ResolverCalls("findplace")
    IN  /\ fp # <<>> => /\ Len(ts) = Cardinality(CandidateRanks)
                        /\ \A i \in 1..Len(ts) : ~ts[i].ok
        /\ InCandidateOrder(fp)
        /\ \A i \in 1..Len(fp) :
              fp[i].ok => i = Len(fp) /\ ~ResolverLooping /\ place_id = fp[i].top
        /\ (ResolveReturned /\ Truthy(PLACES_API_KEY) /\ CandidateRanks # {}
            /\ \A i \in 1..Len(ts) : ~ts[i].ok)
              => /\ fp # <<>>
                 /\ fp[Len(fp)].ok \/ (Len(fp) = Cardinality(CandidateRanks) /\ place_id = None)

\* part_000: every text search failed, the first fallback lookup failed too and the second
\* one gave the identifier
C2_Witness ==
    LET ts == ResolverCalls("textsearch")
        fp == ResolverCalls("findplace")
    IN  /\ app = "part_000" /\ pc = "done"
        /\ Len(ts) = 3 /\ Len(fp) = 2 /\ ~fp[1].ok /\ fp[2].ok
        /\ place_id = fp[2].top

\* ------------------------------------------------------------ properties of the run
\* C3: whatever the network calls of a run do, no exception reaches the run, and a run that
\* ended has a value for every metric and a score.
C3_NoExceptionReachesRun ==
    /\ exception = "none"
    /\ pc # "crashed"
    /\ pc = "done" => metrics # None /\ ret # None

\* the degraded path the claim describes: the page fetch and the text searches failed and the
\* run still ended with its metrics and score
C3_Witness ==
    /\ pc = "done" /\ metrics # None /\ ret # None
    /\ website # <<>> /\ soup = None
    /\ Truthy(PLACES_API_KEY) /\ ResolverCalls("textsearch") # <<>> /\ place_id = None

\* the requests that go to the listing API
ListingCalls == SelectSeq(calls, LAMBDA c : c.api \in {"textsearch", "findplace", "details"})

\* C4: without a listing-API key the text search, the fallback lookup and the detail fetch
\* return None whatever the network would answer, find_best_place_id returns None, no detail
\* record is there, and the run sends no request to the listing API.
C4_NoKeyNoListingRequest ==
    ~Truthy(PLACES_API_KEY) =>
        /\ ListingCalls = <<>>
        /\ place_id = None /\ details = None
        /\ \A q \in {clinic_name \o <<" ">> \o address, clinic_name, get_domain(website)} :
             /\ \A resp \in SearchResponses("results") :
                   /\ places_text_search(q, resp) = [ret |-> None, exc |-> FALSE, sent |-> FALSE]
                   /\ places_text_search_app(q, resp) = [ret |-> None, exc |-> FALSE, sent |-> FALSE]
             /\ \A resp \in SearchResponses("candidates") :
                   places_find_place(q, resp) = [ret |-> None, exc |-> FALSE, sent |-> FALSE]
        /\ \A p \in PlaceIds : \A resp \in DetailsResponses :
             /\ places_details(p, resp) = [ret |-> None, exc |-> FALSE, sent |-> FALSE]
             /\ places_details_app(p, resp) = [ret |-> None, exc |-> FALSE, sent |-> FALSE]

\* a run without the key, with a complete form, that ended
C4_Witness ==
    /\ ~Truthy(PLACES_API_KEY) /\ pc = "done"
    /\ Cardinality(CandidateRanks) = 3
    /\ Truthy(CSE_API_KEY) /\ Len(calls) = 2

\* C5: when the fetched document is absent, every site signal of the run (operating-since
\* year, specialties, website health, social presence, booking, insurance, media count,
\* advertising signals) is "Search limited".
C5_AbsentPageGivesSentinel ==
    (metrics # None /\ soup = None) =>
        /\ metrics.years = SearchLimited
        /\ metrics.specialties = SearchLimited
        /\ metrics.wh_str = SearchLimited
        /\ metrics.social_present = SearchLimited
        /\ metrics.booking = SearchLimited
        /\ metrics.insurance = SearchLimited
        /\ metrics.site_media = SearchLimited
        /\ metrics.site_ads = SearchLimited

\* C6: when the listing record is absent or its status is not OK, every listing-derived
\* metric (GBP score and signals, office hours, photo count, rating, review count, sentiment,
\* both theme lists) is "Search limited" and the reputation bucket is 0.
C6_AbsentListingGivesSentinel ==
    (metrics # None /\ ~DetailsOK(details)) =>
        /\ metrics.gbp_score = SearchLimited
        /\ metrics.gbp_signals = SearchLimited
        /\ metrics.hours = SearchLimited
        /\ metrics.photos_count = SearchLimited
        /\ metrics.rating_str = SearchLimited
        /\ metrics.review_count = SearchLimited
        /\ metrics.sentiment = SearchLimited
        /\ metrics.top_pos = SearchLimited
        /\ metrics.top_neg = SearchLimited
        /\ ret # None => ret.rep = 0

\* ------------------------------------------------------------ claims about the score
\* compute_smile_score of part_000 or app.py has returned
ScoreReturned == pc = "return" /\ app # "app_Basic"

\* the sum of the three bucket scores a call returned, in tenths
ReturnedBucketSum == ret.vis + ret.rep + ret.exp

\* C7 as stated: the composite compute_smile_score returns equals the sum of the three
\* bucket scores it returns, for every input.
C7_CompositeIsSumOfReturnedBuckets ==
    ScoreReturned => ret.total = ReturnedBucketSum

\* C7, nearby statement: the composite is rounded from the unrounded bucket sum, so it is
\* within 0.1 of the sum of the three returned bucket scores, for every input.
C7_CompositeWithinOneTenthOfBucketSum ==
    ScoreReturned => /\ ret.total - ReturnedBucketSum <= 1
                     /\ ReturnedBucketSum - ret.total <= 1

\* website health 67, Facebook only, rating 4.5 with 124 reviews, no experience signal:
\* 19.05 + 22.96 = 42.01 gives the composite 42.0 beside the buckets 19.1 + 23.0 + 0.0
C7_Witness ==
    /\ ScoreReturned
    /\ args.wh_pct = IntV(67) /\ args.social_present = StrV(s_Facebook)
    /\ args.rating = [t |-> "float", v |-> 45] /\ args.reviews_total = IntV(124)
    /\ ret = [total |-> 420, vis |-> 191, rep |-> 230, exp |-> 0]

\* C8: with a rating in [0,5], a review count >= 0 and a website health percentage in
\* [0,100], compute_smile_score returns visibility in [0,30], reputation in [0,40],
\* experience in [0,30] and a composite in [0,100].
C8_ScoresInRange ==
    (/\ ScoreReturned
     /\ IsNumber(args.rating) => args.rating.v \in 0..50
     /\ IsNumber(args.reviews_total) => args.reviews_total.v >= 0
     /\ IsNumber(args.wh_pct) => args.wh_pct.v \in 0..100)
        => /\ ret.vis \in 0..300
           /\ ret.rep \in 0..400
           /\ ret.exp \in 0..300
           /\ ret.total \in 0..1000

\* the best inputs: rating 5.0 with more reviews than the cap of 500, a perfect site with both
\* networks; visibility and reputation reach their maxima
C8_Witness ==
    /\ ScoreReturned
    /\ args.rating = [t |-> "float", v |-> 50] /\ args.reviews_total = IntV(600)
    /\ ret.rep = 400 /\ ret.vis = 300 /\ ret.exp > 0

\* rating 4.8 with 600 reviews was passed
Rating48Reviews600 ==
    args # None /\ args.rating = [t |-> "float", v |-> 48] /\ args.reviews_total = IntV(600)

\* C9 as stated: for rating 4.8 and 600 reviews the reputation bucket returned is 37.6.
C9_ReputationIs37_6 ==
    (ScoreReturned /\ Rating48Reviews600) => ret.rep = 376

\* C9, nearby statement: for rating 4.8 and 600 reviews the reputation bucket returned is
\* round((4.8/5*100 + 100)/2/100*40, 1) = 39.2.
C9_ReputationIs39_2 ==
    (ScoreReturned /\ Rating48Reviews600) => ret.rep = 392

C9_Witness == ScoreReturned /\ Rating48Reviews600 /\ ret.rep = 392 /\ ret.total >= 392

\* part_000, app.py: no rating and no review count was passed / no experience signal was
\* passed (visibility always has the social-presence part there)
NoReputationInput(a) == ~IsNumber(a.rating) /\ ~IsNumber(a.reviews_total)
NoExperienceInput(a) ==
    /\ ~(Truthy(a.booking) /\ Contains(<<"O","n","l","i","n","e"," ","b","o","o","k","i","n","g">>, a.booking.v))
    /\ ~(Truthy(a.booking) /\ Contains(<<"P","h","o","n","e","-","o","n","l","y">>, a.booking.v))
    /\ ~a.hours_present /\ ~a.insurance_clear /\ ~a.accessibility_present
\* app_Basic.py: none of the subscores named is a number
NoSubscore(a, names) == \A n \in names : ~IsNumber(a[n])

\* what a call returned for the buckets that had no input: every one of them is v
EmptyBucketsScore(v) ==
    IF app = "app_Basic"
    THEN /\ NoSubscore(args, {"wh", "sp"}) => ret.vis = v
         /\ NoSubscore(args, {"rating_pct", "volume_pct", "sentiment_pct", "response_pct"})
               => ret.rep = v
         /\ NoSubscore(args, {"booking_pct", "hours_pct", "insurance_pct", "accessibility_pct"})
               => ret.exp = v
    ELSE /\ NoReputationInput(args) => ret.rep = v
         /\ NoExperienceInput(args) => ret.exp = v

\* C10 as stated: in every compute_smile_score a bucket with an empty contributing set scores
\* 0 and no other default is substituted.
C10_EmptyBucketScoresZero ==
    pc = "return" => EmptyBucketsScore(0)

\* C10, nearby statement: in part_000 and app.py a bucket with an empty contributing set
\* scores 0; in app_Basic.py it scores the fallback 10.0.
C10_EmptyBucketZeroOrBasicFallback ==
    pc = "return" => EmptyBucketsScore(IF app = "app_Basic" THEN 100 ELSE 0)

\* part_000: a site with both networks and nothing else; reputation and experience are empty
C10_Witness ==
    /\ pc = "return" /\ app = "part_000"
    /\ NoReputationInput(args) /\ NoExperienceInput(args)
    /\ ret.rep = 0 /\ ret.exp = 0 /\ ret.vis > 0 /\ ret.total = ret.vis

\* ------------------------------------------------------------ claims about the sentinel in the score
\* the visibility bucket a call would return were it averaged over the website-health
\* percentage alone
VisFromWebsiteHealthOnly(a) ==
    Round1(BucketScore(IF IsNumber(a.wh_pct) THEN <<10 * a.wh_pct.v>> ELSE <<>>, 30))

\* C11: a metric whose value is the sentinel adds nothing to a bucket average; with social
\* presence "Search limited" the visibility bucket is the one of the website-health
\* percentage alone, not lowered by an entry of 0.
C11_SentinelSocialLeftOutOfAverage ==
    (ScoreReturned /\ args.social_present = SearchLimited)
        => ret.vis \in VisFromWebsiteHealthOnly(args)

\* website health 34 beside the sentinel: (34 + 0)/2 gives 5.1 where 34 alone gives 10.2
C11_Witness ==
    /\ ScoreReturned /\ args.social_present = SearchLimited /\ args.wh_pct = IntV(34)
    /\ ret.vis = 51

\* ------------------------------------------------------------ claims about website_health
\* the points of the three checks for the inputs of the call: the URL's scheme, the viewport
\* tag of the document, the elapsed time in hundredths of a second
HttpsPoints ==
    IF SchemeEnd(website) > 0 /\ Lower(Slice(website, 1, SchemeEnd(website) - 1)) = <<"h","t","t","p","s">>
    THEN 34 ELSE 0
ViewportPoints == IF soup # None /\ soup.viewport THEN 33 ELSE 0
LatencyPoints ==
    IF load_time = None THEN 0
    ELSE IF load_time.v < 200 THEN 33 ELSE IF load_time.v < 500 THEN 16 ELSE 0

\* C12: for a URL, the website-health score is the sum of the three checks (HTTPS 34, viewport
\* 33, latency under 2 s 33, under 5 s 16, else 0), an integer in 0..100 written "N/100", and
\* "0/100" for a non-HTTPS URL without viewport tag and a latency of 5 s or more.
C12_HealthScoreIsSumOfChecks ==
    (pc = "wh_return" /\ website # <<>>) =>
        /\ \E n \in 0..100 :
              /\ n = HttpsPoints + ViewportPoints + LatencyPoints
              /\ ret.score = StrV(IntStr(n) \o <<"/","1","0","0">>)
        /\ (HttpsPoints = 0 /\ ViewportPoints = 0 /\ load_time # None /\ load_time.v >= 500)
              => ret.score = StrV(<<"0","/","1","0","0">>)

\* an HTTPS URL written in capitals, a viewport tag and exactly 2.00 s: 34 + 33 + 16
C12_Witness ==
    /\ pc = "wh_return"
    /\ website = <<"H","T","T","P","S",":","/","/","S","m","i","l","e",".","c","o","m">>
    /\ soup = doc_rich /\ load_time = IntV(200)
    /\ ret.score = StrV(<<"8","3","/","1","0","0">>)

\* the call of the scenario: an http URL, a document with a viewport tag, 1.50 s
HttpViewport150 ==
    /\ pc = "wh_return" /\ website = url_http
    /\ soup # None /\ soup.viewport /\ load_time = IntV(150)

\* C13 as stated: for a non-HTTPS URL whose document has a viewport tag and was fetched in
\* 1.5 s, website_health returns "67/100" with the checklist
\* "HTTPS (x) | Mobile-friendly (v) | Load speed (v) (1.50s)".
C13_HttpViewportFastIs67 ==
    HttpViewport150 =>
        /\ ret.score = StrV(<<"6","7","/","1","0","0">>)
        /\ ret.checks = StrV(<<"H","T","T","P","S"," ","(x)"," ","|"," ","M","o","b","i","l","e","-","f","r","i","e","n","d","l","y"," ","(v)"," ","|"," ","L","o","a","d"," ","s","p","e","e","d"," ","(v)"," ","(","1",".","5","0","s",")">>)

\* C13, nearby statement: the same call returns "66/100" (0 + 33 + 33) with that checklist.
C13_HttpViewportFastIs66 ==
    HttpViewport150 =>
        /\ ret.score = StrV(<<"6","6","/","1","0","0">>)
        /\ ret.checks = StrV(<<"H","T","T","P","S"," ","(x)"," ","|"," ","M","o","b","i","l","e","-","f","r","i","e","n","d","l","y"," ","(v)"," ","|"," ","L","o","a","d"," ","s","p","e","e","d"," ","(v)"," ","(","1",".","5","0","s",")">>)

C13_Witness == HttpViewport150 /\ soup = doc_mid /\ ret.score = StrV(<<"6","6","/","1","0","0">>)

\* C14 as stated: without a URL website_health returns "Search limited" for the score string
\* and for the checklist string.
C14_NoUrlBothSentinel ==
    (pc = "wh_return" /\ website = <<>>) =>
        /\ ret.score = StrV(<<"S","e","a","r","c","h"," ","l","i","m","i","t","e","d">>)
        /\ ret.checks = StrV(<<"S","e","a","r","c","h"," ","l","i","m","i","t","e","d">>)

\* C14, nearby statement: without a URL website_health returns "Search limited" for the score
\* string and "No URL" for the checklist string, whatever the document and the time are.
C14_NoUrlSentinelAndNoURL ==
    (pc = "wh_return" /\ website = <<>>) =>
        /\ ret.score = StrV(<<"S","e","a","r","c","h"," ","l","i","m","i","t","e","d">>)
        /\ ret.checks = StrV(<<"N","o"," ","U","R","L">>)

\* no URL, though a document and a time are passed
C14_Witness ==
    /\ pc = "wh_return" /\ website = <<>> /\ soup = doc_rich /\ load_time = IntV(150)
    /\ ret.checks = StrV(<<"N","o"," ","U","R","L">>)

\* ------------------------------------------------------------ claims about GBP completeness
\* the weights of the signals present in a listing record, photos counting from min_photos
\* references on
SignalWeights(res, min_photos) ==
    (IF res.opening_hours # None THEN 20 ELSE 0)
    + (IF res.photos # None /\ Len(res.photos.v) >= min_photos THEN 20 ELSE 0)
    + (IF res.website # None /\ res.website.v # <<>> THEN 15 ELSE 0)
    + (IF res.international_phone_number # None /\ res.international_phone_number.v # <<>> THEN 15 ELSE 0)
    + (IF res.rating # None /\ res.user_ratings_total # None /\ res.user_ratings_total.v > 0 THEN 10 ELSE 0)
    + (IF \E i \in 1..Len(res.types) : res.types[i] \in {"dentist", "dental_clinic"} THEN 10 ELSE 0)
    + (IF res.formatted_address # None /\ res.formatted_address.v # <<>> THEN 10 ELSE 0)

\* the run computed its metrics from a listing record with status OK
GbpScored == metrics # None /\ details # None /\ details.status = <<"O","K">>

\* the GBP score of the run is the sum of the weights, photos counting from min_photos on
GbpScoreIsWeights(min_photos) ==
    \E n \in 0..100 :
        /\ n = SignalWeights(details.result, min_photos)
        /\ metrics.gbp_score = StrV(IntStr(n) \o <<"/","1","0","0">>)

\* C15 as stated: for a record with status OK the GBP score is the sum of the weights of the
\* signals present (hours 20, at least one photo reference 20, website 15, phone 15, rating
\* with a nonzero count 10, dental category 10, address 10), hence in 0..100 and 100 with all
\* seven.
C15_GbpScoreOnePhoto ==
    GbpScored => GbpScoreIsWeights(1)

\* C15, nearby statement: the same sum, where the photo signal needs one reference in
\* part_000 and three references in app.py.
C15_GbpScorePhotosPerVersion ==
    GbpScored => GbpScoreIsWeights(IF app = "app" THEN 3 ELSE 1)

\* app.py, a record with a single photo reference, phone, reviews and address: 15 + 10 + 10
C15_Witness ==
    /\ GbpScored /\ app = "app" /\ details.result = res_mid
    /\ metrics.gbp_score = StrV(<<"3","5","/","1","0","0">>)

\* ------------------------------------------------------------ claims about advise
\* advise has returned
AdviseReturned == pc = "advise_return"

\* the values drawn that carry one of the six markers "search limited", "not available via
\* places api", "request_denied", "invalid request", "permission denied", "zero_results", in
\* whatever case and with text around it
MarkerValues ==
    {StrV(<<"S","e","a","r","c","h"," ","l","i","m","i","t","e","d">>),
     StrV(<<" "," ","S","E","A","R","C","H"," ","L","I","M","I","T","E","D"," ">>),
     StrV(<<"N","o","t"," ","a","v","a","i","l","a","b","l","e"," ","v","i","a"," ","P","l","a","c","e","s"," ","A","P","I"," ","(","G","B","P"," ","n","e","e","d","e","d",")">>),
     StrV(<<"R","E","Q","U","E","S","T","_","D","E","N","I","E","D">>),
     StrV(<<"P","l","a","c","e","s",":"," ","R","E","Q","U","E","S","T","_","D","E","N","I","E","D">>),
     StrV(<<"I","n","v","a","l","i","d"," ","r","e","q","u","e","s","t",".">>),
     StrV(<<"P","e","r","m","i","s","s","i","o","n"," ","d","e","n","i","e","d">>),
     StrV(<<"Z","E","R","O","_","R","E","S","U","L","T","S">>)}

\* the substrings advise looks for in the lower-cased metric name
DispatchSubstrings ==
    {<<"w","e","b","s","i","t","e"," ","h","e","a","l","t","h"," ","s","c","o","r","e">>,
     <<"g","b","p"," ","c","o","m","p","l","e","t","e","n","e","s","s">>,
     <<"s","e","a","r","c","h"," ","v","i","s","i","b","i","l","i","t","y">>,
     <<"s","o","c","i","a","l"," ","m","e","d","i","a"," ","p","r","e","s","e","n","c","e">>,
     <<"g","o","o","g","l","e"," ","r","e","v","i","e","w","s"," ","(","a","v","g",")">>,
     <<"t","o","t","a","l"," ","g","o","o","g","l","e"," ","r","e","v","i","e","w","s">>,
     <<"a","p","p","o","i","n","t","m","e","n","t"," ","b","o","o","k","i","n","g">>,
     <<"o","f","f","i","c","e"," ","h","o","u","r","s">>,
     <<"i","n","s","u","r","a","n","c","e"," ","a","c","c","e","p","t","a","n","c","e">>,
     <<"s","e","n","t","i","m","e","n","t"," ","h","i","g","h","l","i","g","h","t","s">>,
     <<"t","o","p"," ","p","o","s","i","t","i","v","e"," ","t","h","e","m","e","s">>,
     <<"t","o","p"," ","n","e","g","a","t","i","v","e"," ","t","h","e","m","e","s">>,
     <<"p","h","o","t","o","s">>,
     <<"a","d","v","e","r","t","i","s","i","n","g"," ","s","c","r","i","p","t","s">>}

\* C16: advise returns the empty string for every metric name when the value carries a
\* sentinel or error marker, and for every value when the metric name contains none of the
\* dispatch substrings.
C16_NoAdviceOnMarkerOrUnknownMetric ==
    AdviseReturned =>
        /\ args.value \in MarkerValues => ret = StrV(<<>>)
        /\ (\A d \in DispatchSubstrings : ~Contains(d, Lower(args.metric))) => ret = StrV(<<>>)

\* a marker in capitals after other text, under a metric that has advice for every other value
C16_Witness ==
    /\ AdviseReturned
    /\ args.metric = <<"O","f","f","i","c","e"," ","H","o","u","r","s">>
    /\ args.value = StrV(<<"P","l","a","c","e","s",":"," ","R","E","Q","U","E","S","T","_","D","E","N","I","E","D">>)
    /\ ret = StrV(<<>>)

\* ------------------------------------------------------------ C17
\* the script has run to its end a second time, on the form and the answers of the first run
SecondRunDone == frozen # None /\ frozen.first # None /\ pc = "done"

CallStage(c) ==
    IF c.api = "page" THEN 1
    ELSE IF c.api = "textsearch" /\ c.fn = "find_best_place_id" THEN 2
    ELSE IF c.api = "findplace" THEN 3
    ELSE IF c.api = "details" THEN 4
    ELSE 5

\* C18: the requests of one run leave in a fixed order, the page fetch, then the resolver's
\* text searches, then its fallback lookups, then the detail fetch; a fallback lookup is sent
\* only when no text search before it succeeded; the detail fetch is sent at most once, after
\* find_best_place_id returned, for the identifier it returned, which is not absent and is the
\* first one listed by the resolver's last request.
C18_RequestsInFixedOrder ==
    /\ \A i, j \in 1..Len(calls) : i < j => CallStage(calls[i]) <= CallStage(calls[j])
    /\ \A i, j \in 1..Len(calls) :
           i < j /\ CallStage(calls[i]) = 2 /\ CallStage(calls[j]) = 3 => ~calls[i].ok
    /\ Len(SelectSeq(calls, LAMBDA c : c.api = "details")) <= 1
    /\ \A i \in 1..Len(calls) :
           calls[i].api = "details" =>
               /\ pc \notin {"start", "resolve", "text_search", "find_place", "details"}
               /\ Truthy(place_id) /\ calls[i].q = place_id.v
               /\ i > 1 /\ CallStage(calls[i - 1]) \in {2, 3}
               /\ calls[i - 1].ok /\ calls[i - 1].top = place_id

\* a finished run that fetched the page, searched two candidates in vain, found the listing
\* with the fallback lookup and fetched its record
C18_Witness ==
    /\ pc = "done"
    /\ Len(calls) >= 5
    /\ calls[1].api = "page"
    /\ CallStage(calls[2]) = 2 /\ CallStage(calls[3]) = 2
    /\ \E i \in 4..Len(calls) - 1 : CallStage(calls[i]) = 3 /\ calls[i].ok /\ calls[i + 1].api = "details"

\* ------------------------------------------------------------ C19
\* C19: no request is sent again. The page is requested at most once. In each pass of the
\* resolver, the text searches and the fallback lookups, the requests are candidates of the
\* form in their order, so each candidate is sent at most once per pass, whether its request
\* succeeded, failed or raised; with at most three candidates that is at most six resolver
\* requests. The detail record is requested at most once. (The forms of the model give
\* candidates that differ from one another.)
C19_NoRequestRepeated ==
    LET ts == ResolverCalls("textsearch")
        fp == ResolverCalls("findplace")
    IN  /\ Len(SelectSeq(calls, LAMBDA c : c.api = "page")) <= 1
        /\ InCandidateOrder(ts) /\ InCandidateOrder(fp)
        /\ \A i, j \in 1..Len(ts) : i < j => ts[i].q # ts[j].q
        /\ \A i, j \in 1..Len(fp) : i < j => fp[i].q # fp[j].q
        /\ Len(ts) <= Cardinality(CandidateRanks) /\ Len(fp) <= Cardinality(CandidateRanks)
        /\ Cardinality(CandidateRanks) <= 3
        /\ Len(ts) + Len(fp) <= 6
        /\ Len(SelectSeq(calls, LAMBDA c : c.api = "details")) <= 1

\* a run in which the page request and all six resolver requests failed: none was sent again
C19_Witness ==
    /\ pc = "done"
    /\ Len(SelectSeq(calls, LAMBDA c : c.api = "page" /\ ~c.ok)) = 1
    /\ Len(ResolverCalls("textsearch")) = 3 /\ Len(ResolverCalls("findplace")) = 3
    /\ \A i \in 1..Len(calls) : ~calls[i].ok

\* ------------------------------------------------------------ C20
\* the hits of every keyword of every theme of a dictionary in the text
RECURSIVE ThemeTotal(_, _)
ThemeTotal(theme_dict, blob) ==
    IF theme_dict = <<>> THEN 0
    ELSE SumCounts(theme_dict[1].kws, blob) + ThemeTotal(Tail(theme_dict), blob)

\* analyze_review_texts returned for a list that holds a review
ReviewsAnalysed == pc = "reviews_return" /\ args.reviews # <<>>

\* C20: with P the hits of all positive themes and N the hits of all negative themes in the
\* reviews, the themes beyond the three that are listed included, the sentiment returned is
\* "Mixed/neutral (few obvious themes)" when P = N = 0, else "Mostly positive mentions (P vs N)"
\* when P >= N, else "Mixed with notable concerns (N negatives vs P positives)".
C20_SentimentFromAllThemeHits ==
    ReviewsAnalysed =>
        LET blob == text_blob_of(args.reviews)
            P == ThemeTotal(positive_themes, blob)
            N == ThemeTotal(negative_themes, blob)
        IN  ret.sentiment =
                StrV(IF P = 0 /\ N = 0 THEN <<"M","i","x","e","d","/","n","e","u","t","r","a","l"," ","(","f","e","w"," ","o","b","v","i","o","u","s"," ","t","h","e","m","e","s",")">>
                     ELSE IF P >= N
                     THEN <<"M","o","s","t","l","y"," ","p","o","s","i","t","i","v","e"," ","m","e","n","t","i","o","n","s"," ","(">> \o IntStr(P) \o <<" ","v","s"," ">> \o IntStr(N) \o <<")">>
                     ELSE <<"M","i","x","e","d"," ","w","i","t","h"," ","n","o","t","a","b","l","e"," ","c","o","n","c","e","r","n","s"," ","(">> \o IntStr(N) \o <<" ","n","e","g","a","t","i","v","e","s"," ","v","s"," ">> \o IntStr(P) \o <<" ","p","o","s","i","t","i","v","e","s",")">>)

\* one review that hits all five positive themes, six hits in all, four of them in the three
\* themes listed
C20_Witness ==
    /\ ReviewsAnalysed
    /\ Len(args.reviews) = 1
    /\ Len(count_hits(positive_themes, text_blob_of(args.reviews))) = 5
    /\ ret.sentiment = StrV(<<"M","o","s","t","l","y"," ","p","o","s","i","t","i","v","e"," ","m","e","n","t","i","o","n","s"," ","(","6"," ","v","s"," ","0",")">>)
    /\ ret.top_pos = StrV(<<"c","o","m","m","u","n","i","c","a","t","i","o","n"," ","(","2",")",";"," ","f","r","i","e","n","d","l","y"," ","s","t","a","f","f"," ","(","1",")",";"," ","c","l","e","a","n","l","i","n","e","s","s"," ","(","1",")">>)

\* ------------------------------------------------------------ C21
\* the theme string of one polarity is right for the text: it names up to three themes of the
\* table, each with its count, which is above zero; the counts do not go up; no theme left
\* out has more hits than a listed one, and a theme with a hit is left out only when three
\* are listed; without any hit the string is "None detected"
ThemeStringRight(out, theme_dict, blob) ==
    LET n == Len(theme_dict)
        count(i) == SumCounts(theme_dict[i].kws, blob)
        hit == {i \in 1..n : count(i) > 0}
        k == Min(3, Cardinality(hit))
    IN  IF hit = {} THEN out = StrV(<<"N","o","n","e"," ","d","e","t","e","c","t","e","d">>)
        ELSE \E idx \in [1..k -> hit] :
                /\ \A a, b \in 1..k : a < b => idx[a] # idx[b] /\ count(idx[a]) >= count(idx[b])
                /\ \A i \in hit : (\A a \in 1..k : idx[a] # i) => k = 3 /\ count(i) <= count(idx[3])
                /\ out = StrV(Join(<<";"," ">>,
                              [a \in 1..k |-> theme_dict[idx[a]].theme \o <<" ","(">>
                                               \o IntStr(count(idx[a])) \o <<")">>]))

\* the two reviews of the scenario, in their order
TwoReviewScenario == pc = "reviews_return" /\ args.reviews = <<[text |-> review_1], [text |-> review_2]>>

\* C21: for each polarity analyze_review_texts lists the themes with a hit, most hits first,
\* the first three of them at most, as "name (count)" joined by "; ", and "None detected"
\* when no theme has a hit. For the reviews "Staff were very friendly and the clinic was
\* clean" and "Had to wait a long time at reception" the positive themes hold "friendly staff"
\* and "cleanliness", the negative ones "long wait" and "front desk experience", and the
\* sentiment is "Mostly positive mentions (2 vs 2)".
C21_TopThemesAndScenario ==
    /\ ReviewsAnalysed =>
          /\ ThemeStringRight(ret.top_pos, positive_themes, text_blob_of(args.reviews))
          /\ ThemeStringRight(ret.top_neg, negative_themes, text_blob_of(args.reviews))
    /\ TwoReviewScenario =>
          /\ Contains(<<"f","r","i","e","n","d","l","y"," ","s","t","a","f","f">>, ret.top_pos.v) /\ Contains(<<"c","l","e","a","n","l","i","n","e","s","s">>, ret.top_pos.v)
          /\ Contains(<<"l","o","n","g"," ","w","a","i","t">>, ret.top_neg.v) /\ Contains(<<"f","r","o","n","t"," ","d","e","s","k"," ","e","x","p","e","r","i","e","n","c","e">>, ret.top_neg.v)
          /\ ret.sentiment = StrV(<<"M","o","s","t","l","y"," ","p","o","s","i","t","i","v","e"," ","m","e","n","t","i","o","n","s"," ","(","2"," ","v","s"," ","2",")">>)

\* the scenario's two reviews were analysed: two positive themes and two negative ones listed
C21_Witness ==
    /\ TwoReviewScenario
    /\ ret.top_pos = StrV(<<"f","r","i","e","n","d","l","y"," ","s","t","a","f","f"," ","(","1",")",";"," ","c","l","e","a","n","l","i","n","e","s","s"," ","(","1",")">>)
    /\ ret.top_neg = StrV(<<"l","o","n","g"," ","w","a","i","t"," ","(","1",")",";"," ","f","r","o","n","t"," ","d","e","s","k"," ","e","x","p","e","r","i","e","n","c","e"," ","(","1",")">>)

\* ------------------------------------------------------------ C22
\* the positions of the text at which the keyword starts
Positions(kw, s) == {i \in 1..Len(s) : MatchAt(kw, s, i)}

\* the most occurrences of the keyword that can be taken without two of them sharing a
\* character
DisjointOccurrences(kw, s) ==
    LET ok(S) == \A i, j \in S : i < j => i + Len(kw) <= j
        sizes == {Cardinality(S) : S \in {T \in SUBSET Positions(kw, s) : ok(T)}}
    IN  CHOOSE m \in sizes : \A k \in sizes : k <= m

\* the sentiment and, where at most three themes have a hit, the themes listed are those the
\* per-theme counts cnt (positive table, then negative table) give
CountsShown(out, cnt) ==
    LET P == Sum([i \in 1..Len(positive_themes) |-> cnt.pos[i]])
        N == Sum([i \in 1..Len(negative_themes) |-> cnt.neg[i]])
        listed(str, theme_dict, c) ==
            Cardinality({i \in 1..Len(theme_dict) : c[i] > 0}) <= 3 =>
                \A i \in 1..Len(theme_dict) :
                    c[i] > 0 => Contains(theme_dict[i].theme \o <<" ","(">> \o IntStr(c[i]) \o <<")">>, str.v)
    IN  /\ listed(out.top_pos, positive_themes, cnt.pos)
        /\ listed(out.top_neg, negative_themes, cnt.neg)
        /\ P + N > 0 =>
              out.sentiment = StrV(IF P >= N
                     THEN <<"M","o","s","t","l","y"," ","p","o","s","i","t","i","v","e"," ","m","e","n","t","i","o","n","s"," ","(">> \o IntStr(P) \o <<" ","v","s"," ">> \o IntStr(N) \o <<")">>
                     ELSE <<"M","i","x","e","d"," ","w","i","t","h"," ","n","o","t","a","b","l","e"," ","c","o","n","c","e","r","n","s"," ","(">> \o IntStr(N) \o <<" ","n","e","g","a","t","i","v","e","s"," ","v","s"," ">> \o IntStr(P) \o <<" ","p","o","s","i","t","i","v","e","s",")">>)

RECURSIVE SumOver(_, _, _)
SumOver(Op(_, _), kws, s) == IF kws = <<>> THEN 0 ELSE Op(kws[1], s) + SumOver(Op, Tail(kws), s)

\* the per-theme counts of the text under one way of counting a keyword
ThemeCounts(Op(_, _), blob) ==
    [pos |-> [i \in 1..Len(positive_themes) |-> SumOver(Op, positive_themes[i].kws, blob)],
     neg |-> [i \in 1..Len(negative_themes) |-> SumOver(Op, negative_themes[i].kws, blob)]]

\* C22 as stated: a theme's count is the sum over its keywords of the number of positions of
\* the lower-cased joined review text at which the keyword occurs, occurrences of a keyword
\* that overlap one another counted each.
C22_CountsEveryPosition ==
    ReviewsAnalysed =>
        CountsShown(ret, ThemeCounts(LAMBDA kw, s : Cardinality(Positions(kw, s)), text_blob_of(args.reviews)))

\* C22, nearby statement: a theme's count is the sum over its keywords of the number of
\* occurrences of the keyword in the lower-cased joined review text that do not overlap one
\* another (the most that can be taken so; substrings, not whole words).
C22_CountsDisjointOccurrences ==
    ReviewsAnalysed =>
        CountsShown(ret, ThemeCounts(DisjointOccurrences, text_blob_of(args.reviews)))

\* "spotlesspotless" holds "spotless" at two positions that share a letter: it counts once
C22_Witness ==
    /\ ReviewsAnalysed
    /\ Len(args.reviews) = 1
    /\ Cardinality(Positions(<<"s","p","o","t","l","e","s","s">>, text_blob_of(args.reviews))) = 2
    /\ ret.top_pos = StrV(<<"c","l","e","a","n","l","i","n","e","s","s"," ","(","1",")",";"," ","c","o","m","m","u","n","i","c","a","t","i","o","n"," ","(","1",")">>)

\* ------------------------------------------------------------ C23
\* where the text has a founding keyword followed, after characters that are no digits, by a
\* year of 1900-2099: the keyword's position and the year's
FoundingMatches(text) ==
    {m \in (1..Len(text)) \X (1..Len(text)) :
        \E kw \in FoundingWords :
            /\ MatchAt(kw, Lower(text), m[1])
            /\ m[2] >= m[1] + Len(kw) /\ YearAt(text, m[2])
            /\ \A j \in (m[1] + Len(kw))..(m[2] - 1) : text[j] \notin Digits}

\* the 4-digit years of 1900-2099 in the text, as numbers
YearsIn(text) == {ParseInt(Slice(text, d, d + 3)) : d \in {e \in 1..Len(text) : YearAt(text, e)}}

\* C23: the operating-since extractor returns the year that follows the first founding
\* keyword (established, since, serving since, founded) that has one; without such a match the
\* earliest of the 4-digit years of 1900-2099 in the text; without any year, and for the
\* absent page, the sentinel. What it returns is a 4-digit year or the sentinel.
C23_YearAfterKeywordElseEarliest ==
    pc = "years_return" =>
        IF soup = None THEN ret = SearchLimited
        ELSE LET fm == FoundingMatches(soup.text)
                 ys == YearsIn(soup.text)
             IN  IF fm # {}
                 THEN LET first == CHOOSE m \in fm : \A o \in fm : m[1] <= o[1]
                      IN  ret = StrV(Slice(soup.text, first[2], first[2] + 3))
                 ELSE IF ys # {}
                 THEN ret = StrV(IntStr(CHOOSE y \in ys : \A o \in ys : y <= o))
                 ELSE ret = SearchLimited

\* a page with the years 2021, 2019 and 1987 and no founding keyword: "19" came back
C23_Witness ==
    /\ pc = "years_return" /\ soup # None
    /\ FoundingMatches(soup.text) = {}
    /\ YearsIn(soup.text) = {2021, 2019, 1987}
    /\ ret = StrV(<<"1","9">>)

\* ------------------------------------------------------------ C24
\* the pieces of the lower-cased page text between its full stops that hold "insurance"
InsuranceFragments(text) ==
    SelectSeq(SplitOn(".", Lower(text)), LAMBDA f : Contains(kw_insurance, f))

\* the lower-cased page text mentions insurance in one of the four ways
InsuranceMentioned(text) ==
    \E kw \in {kw_insurance, <<"w","e"," ","a","c","c","e","p","t">>, <<"p","p","o">>, <<"d","e","l","t","a"," ","d","e","n","t","a","l">>} : Contains(kw, Lower(text))

\* C24: the insurance extractor returns "Unclear" when the lower-cased page text holds none of
\* "insurance", "we accept", "ppo", "delta dental"; otherwise the first piece of the text
\* between full stops that holds "insurance", without leading or trailing whitespace (its
\* closing full stop is accepted here); and "Mentioned on site" only when no piece holds
\* "insurance".
C24_FirstInsuranceFragmentTrimmed ==
    (pc = "insurance_return" /\ soup # None) =>
        LET fr == InsuranceFragments(soup.text) IN
        IF ~InsuranceMentioned(soup.text) THEN ret = StrV(s_Unclear)
        ELSE IF fr # <<>> THEN ret \in {StrV(Strip(fr[1])), StrV(Strip(fr[1]) \o <<".">>)}
        ELSE ret = StrV(<<"M","e","n","t","i","o","n","e","d"," ","o","n"," ","s","i","t","e">>)

\* the second sentence of a page holds "insurance": it came back with the blank that follows
\* the first sentence's full stop
C24_Witness ==
    /\ pc = "insurance_return" /\ soup # None
    /\ Len(InsuranceFragments(soup.text)) = 1
    /\ ret = StrV(<<" ">> \o Strip(InsuranceFragments(soup.text)[1]) \o <<".">>)

\* ------------------------------------------------------------ C25
\* the number a value shows before its "/", in tenths: an integer, or digits with one
\* decimal; -1 when it shows no such number
ShownTenths(value) ==
    IF value.t = "int" THEN 10 * value.v
    ELSE IF value.t = "float" THEN value.v
    ELSE IF value.t # "str" THEN -1
    ELSE LET h == Strip(SplitOn("/", value.v)[1]) IN
         IF ParseInt(h) >= 0 THEN 10 * ParseInt(h)
         ELSE IF Len(h) >= 3 /\ h[Len(h) - 1] = "." /\ ParseInt(SubSeq(h, 1, Len(h) - 2)) >= 0
                 /\ h[Len(h)] \in Digits
         THEN 10 * ParseInt(SubSeq(h, 1, Len(h) - 2)) + ParseInt(<<h[Len(h)]>>)
         ELSE -1

\* the count a value is: an integer, or a string of digits; -1 otherwise
ShownCount(value) ==
    IF value.t = "int" THEN value.v
    ELSE IF value.t = "str" THEN ParseInt(Strip(value.v)) ELSE -1

\* C25: for "Google Reviews (Avg)" advise returns "You nailed it" exactly when the rating the
\* value shows is at least 4.6, the advice to reach 4.6 for a rating from 4.0 up to 4.6, and
\* the advice to address negatives below 4.0; for "Total Google Reviews" it returns "You
\* nailed it" exactly when the count is at least 300, the monthly review drive from 100 up to
\* 300, and the QR/SMS ask below 100.
C25_ReviewAdviceThresholds ==
    /\ (AdviseReturned /\ args.metric = <<"G","o","o","g","l","e"," ","R","e","v","i","e","w","s"," ","(","A","v","g",")">> /\ ShownTenths(args.value) >= 0) =>
          LET r == ShownTenths(args.value) IN
          /\ ret.v = <<"Y","o","u"," ","n","a","i","l","e","d"," ","i","t">> <=> r >= 46
          /\ ret.v = <<"A","s","k"," ","h","a","p","p","y"," ","p","a","t","i","e","n","t","s"," ","f","o","r"," ","r","e","v","i","e","w","s"," ","t","o"," ","r","e","a","c","h"," ","4",".","6","+">> <=> (40 <= r /\ r < 46)
          /\ ret.v = <<"A","d","d","r","e","s","s"," ","n","e","g","a","t","i","v","e","s"," ","&"," ","r","e","q","u","e","s","t"," ","f","r","e","s","h"," ","5","(star)"," ","r","e","v","i","e","w","s">> <=> r < 40
    /\ (AdviseReturned /\ args.metric = <<"T","o","t","a","l"," ","G","o","o","g","l","e"," ","R","e","v","i","e","w","s">> /\ ShownCount(args.value) >= 0) =>
          LET n == ShownCount(args.value) IN
          /\ ret.v = <<"Y","o","u"," ","n","a","i","l","e","d"," ","i","t">> <=> n >= 300
          /\ ret.v = <<"R","u","n"," ","a"," ","m","o","n","t","h","l","y"," ","r","e","v","i","e","w"," ","d","r","i","v","e"," ","t","o"," ","h","i","t"," ","3","0","0">> <=> (100 <= n /\ n < 300)
          /\ ret.v = <<"L","a","u","n","c","h"," ","Q","R","/","S","M","S"," ","r","e","v","i","e","w"," ","a","s","k"," ","a","t"," ","c","h","e","c","k","o","u","t">> <=> n < 100

\* advise was asked about a rating of 4.5, just under the threshold
C25_Witness ==
    /\ AdviseReturned
    /\ args.metric = <<"G","o","o","g","l","e"," ","R","e","v","i","e","w","s"," ","(","A","v","g",")">>
    /\ args.value = StrV(<<"4",".","5","/","5">>)
    /\ ret.v = <<"A","s","k"," ","h","a","p","p","y"," ","p","a","t","i","e","n","t","s"," ","f","o","r"," ","r","e","v","i","e","w","s"," ","t","o"," ","r","e","a","c","h"," ","4",".","6","+">>

\* ------------------------------------------------------------ C26
\* the rows of the report that are read from the page: the metric's name and its value
SiteRows ==
    {[k |-> <<"W","e","b","s","i","t","e"," ","H","e","a","l","t","h"," ","S","c","o","r","e">>, v |-> metrics.wh_str],
     [k |-> <<"S","o","c","i","a","l"," ","M","e","d","i","a"," ","P","r","e","s","e","n","c","e">>, v |-> metrics.social_present],
     [k |-> <<"A","p","p","o","i","n","t","m","e","n","t"," ","B","o","o","k","i","n","g">>, v |-> metrics.booking],
     [k |-> <<"I","n","s","u","r","a","n","c","e"," ","A","c","c","e","p","t","a","n","c","e">>, v |-> metrics.insurance],
     [k |-> <<"P","h","o","t","o","s","/","V","i","d","e","o","s"," ","o","n"," ","W","e","b","s","i","t","e">>, v |-> metrics.site_media],
     [k |-> <<"A","d","v","e","r","t","i","s","i","n","g"," ","S","c","r","i","p","t","s"," ","D","e","t","e","c","t","e","d">>, v |-> metrics.site_ads],
     [k |-> <<"Y","e","a","r","s"," ","i","n"," ","O","p","e","r","a","t","i","o","n">>, v |-> metrics.years],
     [k |-> <<"S","p","e","c","i","a","l","t","i","e","s"," ","H","i","g","h","l","i","g","h","t","e","d">>, v |-> metrics.specialties]}

\* C26: in a run whose page fetch gave no document, the advice of every row read from the
\* page (website health, social presence, booking, insurance, media count, advertising
\* scripts, years, specialties) is the empty string.
C26_NoAdviceForAbsentPage ==
    (app = "part_000" /\ metrics # None /\ soup = None) =>
        \A row \in SiteRows : advise(row.k, row.v) = <<>>

\* a finished run for an https website whose page could not be fetched: the report advises to
\* improve the site's health and to add social links
C26_Witness ==
    /\ app = "part_000" /\ pc = "done" /\ soup = None
    /\ website = url_https_www
    /\ \E i \in 1..Len(calls) : calls[i].api = "page" /\ ~calls[i].ok
    /\ advise(<<"W","e","b","s","i","t","e"," ","H","e","a","l","t","h"," ","S","c","o","r","e">>, metrics.wh_str) = <<"I","m","p","r","o","v","e"," ","H","T","T","P","S","/","m","o","b","i","l","e","/","s","p","e","e","d">>
    /\ advise(<<"S","o","c","i","a","l"," ","M","e","d","i","a"," ","P","r","e","s","e","n","c","e">>, metrics.social_present) # <<>>

C28_ExperienceAtMost24CompositeAtMost94 ==
    (pc = "return" /\ app # "app_Basic"
        /\ (IsNumber(args.rating) => args.rating.v <= 50)
        /\ (IsNumber(args.wh_pct) => args.wh_pct.v <= 100))
        => ret.exp <= 240 /\ ret.total <= 940
\* the best input: a perfect site with both networks, 5.0 from 600 reviews, online booking and
\* clear insurance, returns exactly 24.0 and 94.0
C28_Witness ==
    /\ pc = "return" /\ app # "app_Basic"
    /\ args.rating = [t |-> "float", v |-> 50] /\ args.wh_pct = IntV(100)
    /\ args.reviews_total = IntV(600) /\ args.social_present = StrV(s_Facebook_Instagram)
    /\ args.insurance_clear /\ ~args.hours_present /\ ~args.accessibility_present
    /\ Truthy(args.booking) /\ Contains(<<"O","n","l","i","n","e">>, args.booking.v)
    /\ ret.exp = 240 /\ ret.total = 940

\* ------------------------------------------------------------ C29
\* the number of photos a value of a photos metric denotes: the count itself, or the count
\* that opens "N photos, M videos"; -1 for a value that denotes no count
PhotosDenoted(value) ==
    IF value.t = "int" THEN value.v
    ELSE IF value.t = "str" /\ Contains(<<" ","p","h","o","t","o","s",","," ">>, value.v)
    THEN ParseInt(SplitOn(" ", value.v)[1])
    ELSE -1
UploadPhotos ==
    <<"U","p","l","o","a","d"," ","1","0","(en-dash)","2","0"," ","c","l","i","n","i","c"," ","&"," ","t","e","a","m"," ","p","h","o","t","o","s">>

\* C29: for a metric whose name contains "photos", advise returns "You nailed it" whenever the
\* value denotes at least one photo, and returns the upload-photos recommendation only when
\* the photo count is zero.
C29_PhotosAdviceByCount ==
    (pc = "advise_return" /\ Contains(<<"p","h","o","t","o","s">>, Lower(args.metric))
        /\ PhotosDenoted(args.value) >= 0)
        => /\ (PhotosDenoted(args.value) >= 1 => ret = StrV(<<"Y","o","u"," ","n","a","i","l","e","d"," ","i","t">>))
           /\ (ret = StrV(UploadPhotos) => PhotosDenoted(args.value) = 0)
\* a listing with ten photos was told to upload photos
C29_Witness ==
    /\ pc = "advise_return"
    /\ args.metric = <<"P","h","o","t","o","s"," ","c","o","u","n","t"," ","i","n"," ","G","o","o","g","l","e">>
    /\ args.value = IntV(10)
    /\ ret = StrV(UploadPhotos)

\* ------------------------------------------------------------ C30
\* the keywords of a theme table, and the places (start, end) where one of them stands in the
\* text
KeywordsOf(theme_dict) == UNION {{t.kws[i] : i \in 1..Len(t.kws)} : t \in {theme_dict[k] : k \in 1..Len(theme_dict)}}
Places(theme_dict, blob) ==
    UNION {{[from |-> i, to |-> i + Len(kw) - 1] : i \in Positions(kw, blob)} : kw \in KeywordsOf(theme_dict)}
\* the text holds keywords of the first table only: one of them stands in it, and whatever
\* letters spell a keyword of the other table are a part of a longer keyword of the first
OnlyKeywordsOf(theme_dict, other_dict, blob) ==
    /\ Places(theme_dict, blob) # {}
    /\ \A o \in Places(other_dict, blob) :
           \E p \in Places(theme_dict, blob) :
               p.from <= o.from /\ o.to <= p.to /\ p.to - p.from > o.to - o.from

\* C30: the positive and negative tallies are independent: reviews whose only theme keywords
\* are keywords of the negative table give a positive total of 0 and "None detected" for the
\* positive themes, and reviews whose only theme keywords are keywords of the positive table
\* give a negative total of 0 and "None detected" for the negative themes.
C30_TalliesIndependent ==
    ReviewsAnalysed =>
        LET blob == text_blob_of(args.reviews) IN
        /\ OnlyKeywordsOf(negative_themes, positive_themes, blob)
              => /\ ret.top_pos = StrV(s_None_detected)
                 /\ ret.sentiment = StrV(<<"M","i","x","e","d"," ","w","i","t","h"," ","n","o","t","a","b","l","e"," ","c","o","n","c","e","r","n","s"," ","(">>
                                         \o IntStr(ThemeTotal(negative_themes, blob))
                                         \o <<" ","n","e","g","a","t","i","v","e","s"," ","v","s"," ","0"," ","p","o","s","i","t","i","v","e","s",")">>)
        /\ OnlyKeywordsOf(positive_themes, negative_themes, blob)
              => /\ ret.top_neg = StrV(s_None_detected)
                 /\ ret.sentiment = StrV(<<"M","o","s","t","l","y"," ","p","o","s","i","t","i","v","e"," ","m","e","n","t","i","o","n","s"," ","(">>
                                         \o IntStr(ThemeTotal(positive_themes, blob)) \o <<" ","v","s"," ","0",")">>)
\* a review whose one theme keyword is the negative "uncomfortable" was tallied as a positive
\* mention too
C30_Witness ==
    /\ ReviewsAnalysed
    /\ OnlyKeywordsOf(negative_themes, positive_themes, text_blob_of(args.reviews))
    /\ ret.top_neg = StrV(<<"p","a","i","n","/","d","i","s","c","o","m","f","o","r","t"," ","(","1",")">>)
    /\ ret.top_pos = StrV(<<"p","a","i","n","-","f","r","e","e"," ","e","x","p","e","r","i","e","n","c","e"," ","(","1",")">>)
    /\ ret.sentiment = StrV(<<"M","o","s","t","l","y"," ","p","o","s","i","t","i","v","e"," ","m","e","n","t","i","o","n","s"," ","(","1"," ","v","s"," ","1",")">>)

====
